---- MODULE Spec2Model ----
(***************************************************************************)
(* Resource governance layer of google-sheets-combiner:                    *)
(*   src/src/quota_monitor.py  QuotaMonitor (the Quota Tracker)            *)
(*   src/src/rate_limiter.py   rate_limit, retry_on_quota_error and        *)
(*                             quota_aware_api_call (the executor)         *)
(* and the delivery of the combined workbook:                              *)
(*   src/src/unc_path_manager.py  UNCPathManager.save_file_safely          *)
(*                                                                         *)
(* Time is counted in ticks of 1/10 s, the finest interval the code uses   *)
(* (1.0 / calls_per_second with calls_per_second = 10).  Every timestamp   *)
(* x the code keeps is held as the elapsed time  time.time() - x, which is *)
(* the only way the code ever reads it.  An elapsed time stops growing at  *)
(* a cap that lies at or above every value the code compares it with.      *)
(***************************************************************************)
EXTENDS Integers, Sequences, FiniteSets, TLC

\* ------------------------------------------------------------------ bounds
MaxMinuteElapsed == 600     \* cap of time.time() - minute_start
MaxHundredElapsed == 1000   \* cap of time.time() - hundred_second_start
MaxSinceCalled == 2         \* cap of time.time() - last_called[0]
MaxDays == 1                \* calendar-date changes in one run
MaxInvocations == 2         \* invocations of wrapped operations in one run
MaxDirectCalls == 3         \* direct calls of the tracker in one run
MaxRetryAttempts == 3       \* largest configured retry_attempts
MaxPatterns == 2            \* longest configured allowed_unc_patterns
MaxPathTail == 2            \* characters of a path after its two backslashes
MaxPatternTail == 2         \* characters of a pattern after its two backslashes
MaxSanitizeCalls == 3       \* calls of _sanitize_sheet_name in one run

\* ------------------------------------------------------- program constants
TicksPerSecond == 10
DRIVE_API_RATE_LIMIT == 10
SHEETS_API_RATE_LIMIT == 5
max_retries == 3
backoff_factor == 2
SheetsPerMinute == 300
DrivePer100s == 1000
SheetsSoftLimit == 280
DriveSoftLimit == 950
QuerySoftLimit == 19000
DailySoftLimit == 900000000
DriveDaily == 1000000000
DriveQueriesPer100s == 20000
MinuteWindow == 60 * TicksPerSecond
HundredSecondWindow == 100 * TicksPerSecond

Min(a, b) == IF a < b THEN a ELSE b

RECURSIVE Pow(_, _)
Pow(b, e) == IF e = 0 THEN 1 ELSE b * Pow(b, e - 1)

\* ------------------------------------------------------------ input sets
OperationTypes == {"read", "write", "create", "copy", "convert", "delete",
                   "query", "test"}

\* log_sheets_request does not read its operation_type: a known kind and the
\* default stand for all of them
SheetsOperationTypes == {"read", "convert"}

\* ===================================================== QuotaMonitor (pure)
\* A tracker state m is a record
\*   drive_requests, sheets_requests, drive_queries, daily_drive_quota,
\*   last_reset        (the date of usage.last_reset, a day number)
\*   minute_elapsed    (time.time() - minute_start)
\*   hundred_elapsed   (time.time() - hundred_second_start)
\*   printed           (the lines printed by the running call)
\* `today` is datetime.now().date() as a day number.

Emit(m, line) == [m EXCEPT !.printed = Append(@, line)]

_estimate_quota_units(operation_type) ==
    CASE operation_type = "read" -> 1
      [] operation_type = "write" -> 10
      [] operation_type = "create" -> 100
      [] operation_type = "copy" -> 100
      [] operation_type = "convert" -> 200
      [] operation_type = "delete" -> 100
      [] OTHER -> 1

_reset_minute_counters_all(m) ==
    [m EXCEPT !.sheets_requests = 0, !.drive_requests = 0, !.minute_elapsed = 0]

_reset_minute_counters(m) ==
    LET m1 == IF m.sheets_requests > 0
              THEN Emit(m, [line |-> "last_minute", sheets |-> m.sheets_requests])
              ELSE m
    IN  [m1 EXCEPT !.sheets_requests = 0, !.minute_elapsed = 0]

_reset_hundred_second_counters_only(m) ==
    [m EXCEPT !.drive_requests = 0, !.drive_queries = 0]

_reset_hundred_second_counters(m) ==
    LET m1 == IF m.drive_requests > 0 \/ m.drive_queries > 0
              THEN Emit(m, [line |-> "last_100s", drive |-> m.drive_requests,
                            queries |-> m.drive_queries])
              ELSE m
    IN  [m1 EXCEPT !.drive_requests = 0, !.drive_queries = 0,
                   !.hundred_elapsed = 0]

_reset_daily_counters(m, today) ==
    [Emit(m, [line |-> "daily_reset", used |-> m.daily_drive_quota])
        EXCEPT !.daily_drive_quota = 0, !.last_reset = today]

_is_same_or_new_day(m, today) == today >= m.last_reset

_is_new_day(m, today) == today > m.last_reset

WarnSheets(m) ==
    IF m.sheets_requests > SheetsSoftLimit
    THEN Emit(m, [line |-> "warn_sheets", sheets |-> m.sheets_requests])
    ELSE m

WarnDrive(m) ==
    IF m.drive_requests > DriveSoftLimit
    THEN Emit(m, [line |-> "warn_drive", drive |-> m.drive_requests])
    ELSE m

WarnQueries(m) ==
    IF m.drive_queries > QuerySoftLimit
    THEN Emit(m, [line |-> "warn_queries", queries |-> m.drive_queries])
    ELSE m

_check_limits(m, today) ==
    LET a  == IF m.minute_elapsed >= MinuteWindow
              THEN _reset_minute_counters(WarnSheets(m)) ELSE m
        b  == IF a.hundred_elapsed >= HundredSecondWindow
              THEN _reset_hundred_second_counters(WarnQueries(WarnDrive(a)))
              ELSE a
        c  == IF _is_new_day(b, today) THEN _reset_daily_counters(b, today) ELSE b
    IN  IF c.daily_drive_quota > DailySoftLimit
        THEN Emit(c, [line |-> "warn_daily", used |-> c.daily_drive_quota])
        ELSE c

_print_progress(m, api_name, count) ==
    IF count % 10 = 0
    THEN Emit(m, [line |-> "progress", api |-> api_name, count |-> count])
    ELSE m

log_drive_request_by_weight(m, operation_type, today) ==
    LET m1 == [m EXCEPT !.drive_requests = @ + _estimate_quota_units(operation_type),
                        !.daily_drive_quota = @ + _estimate_quota_units(operation_type)]
        m2 == _check_limits(m1, today)
    IN  _print_progress(m2, "Drive", m2.drive_requests)

log_drive_request(m, operation_type, today) ==
    LET m1 == [m EXCEPT !.drive_requests = @ + 1,
                        !.daily_drive_quota = @ + _estimate_quota_units(operation_type)]
        m2 == _check_limits(m1, today)
    IN  _print_progress(m2, "Drive", m2.drive_requests)

log_sheets_request_weighted(m, operation_type, today) ==
    LET m1 == [m EXCEPT !.sheets_requests = @ + 1,
                        !.daily_drive_quota = @ + _estimate_quota_units(operation_type)]
        m2 == _check_limits(m1, today)
    IN  _print_progress(m2, "Sheets", m2.sheets_requests)

log_sheets_request(m, operation_type, today) ==
    LET m1 == [m EXCEPT !.sheets_requests = @ + 1]
        m2 == _check_limits(m1, today)
    IN  _print_progress(m2, "Sheets", m2.sheets_requests)

log_drive_query(m, today) ==
    _check_limits([m EXCEPT !.drive_queries = @ + 1], today)

\* Config.QUOTA_LIMITS
QUOTA_LIMITS ==
    [drive_daily |-> DriveDaily, sheets_per_minute |-> SheetsPerMinute,
     drive_per_100s |-> DrivePer100s,
     drive_queries_per_100s |-> DriveQueriesPer100s]

\* elapsed / 60 and elapsed / 100: a time in ticks over the ticks of the unit
Over(elapsed, unit) == [ticks |-> elapsed, per |-> unit]

get_status_of_day(m) ==
    [drive_requests_per_100s |-> m.daily_drive_quota,
     sheets_requests_per_minute |-> m.sheets_requests,
     drive_queries_per_100s |-> m.drive_queries,
     daily_drive_quota_used |-> m.daily_drive_quota,
     time_in_current_minute |-> Over(m.minute_elapsed, MinuteWindow),
     time_in_current_100s |-> Over(m.hundred_elapsed, HundredSecondWindow),
     limits |-> QUOTA_LIMITS]

\* get_status: the dictionary it returns; it assigns nothing
get_status(m) ==
    [drive_requests_per_100s |-> m.drive_requests,
     sheets_requests_per_minute |-> m.sheets_requests,
     drive_queries_per_100s |-> m.drive_queries,
     daily_drive_quota_used |-> m.daily_drive_quota,
     time_in_current_minute |-> Over(m.minute_elapsed, MinuteWindow),
     time_in_current_100s |-> Over(m.hundred_elapsed, HundredSecondWindow),
     limits |-> QUOTA_LIMITS]

PauseTicksTwoSeconds(time_until_reset) ==
    ((time_until_reset \div TicksPerSecond) + 2) * TicksPerSecond

PauseTicksTruncated(time_until_reset) ==
    (time_until_reset \div TicksPerSecond) * TicksPerSecond

\* int(time_until_reset) + 1 seconds, for a positive time_until_reset in ticks
PauseTicks(time_until_reset) ==
    ((time_until_reset \div TicksPerSecond) + 1) * TicksPerSecond

should_pause_at_ceiling(m) ==
    IF m.sheets_requests >= SheetsPerMinute /\ MinuteWindow - m.minute_elapsed > 0
    THEN PauseTicks(MinuteWindow - m.minute_elapsed)
    ELSE IF m.drive_requests >= DrivePer100s
            /\ HundredSecondWindow - m.hundred_elapsed > 0
         THEN PauseTicks(HundredSecondWindow - m.hundred_elapsed)
         ELSE 0

should_pause_clamped(m) ==
    IF m.sheets_requests > SheetsSoftLimit
    THEN IF MinuteWindow - m.minute_elapsed > 0
         THEN PauseTicks(MinuteWindow - m.minute_elapsed) ELSE TicksPerSecond
    ELSE IF m.drive_requests > DriveSoftLimit
         THEN IF HundredSecondWindow - m.hundred_elapsed > 0
              THEN PauseTicks(HundredSecondWindow - m.hundred_elapsed)
              ELSE TicksPerSecond
         ELSE 0

\* should_pause_for_quota: 0 stands for None (no wait)
should_pause_for_quota(m) ==
    IF m.sheets_requests > SheetsSoftLimit /\ MinuteWindow - m.minute_elapsed > 0
    THEN PauseTicks(MinuteWindow - m.minute_elapsed)
    ELSE IF m.drive_requests > DriveSoftLimit
            /\ HundredSecondWindow - m.hundred_elapsed > 0
         THEN PauseTicks(HundredSecondWindow - m.hundred_elapsed)
         ELSE 0

\* enforce_rate_limit: the time it sleeps (0 when it does not sleep)
enforce_rate_limit(m, api_type) ==
    IF api_type = "drive"
    THEN IF m.drive_requests >= DRIVE_API_RATE_LIMIT
         THEN TicksPerSecond \div DRIVE_API_RATE_LIMIT ELSE 0
    ELSE IF api_type = "sheets"
         THEN IF m.sheets_requests >= SHEETS_API_RATE_LIMIT
              THEN TicksPerSecond \div SHEETS_API_RATE_LIMIT ELSE 0
         ELSE 0

\* =================================================== UNCPathManager (pure)
\* A JSON object is a function on its keys; Get is dict.get(key, default).
\* A path is the sequence of its parts, separators included.
Get(d, key, default) == IF key \in DOMAIN d THEN d[key] ELSE default

EmptyDict == [k \in {} |-> TRUE]

DefaultRetryAttempts == 3

DefaultLocal == <<"output", "/", "combined_sheets.xlsx">>

\* a template is the sequence of its pieces; a replacement field is the
\* piece "{name}"
DefaultTemplate == <<"combined_sheets_", "{timestamp}", ".xlsx">>

_get_default_config ==
    [output_paths |->
        [default_local |-> DefaultLocal, unc_drive_enabled |-> FALSE,
         unc_base_path |-> <<>>, unc_filename_template |-> DefaultTemplate,
         backup_to_local |-> TRUE, create_subdirectories |-> TRUE],
     fallback_options |->
        [use_local_on_unc_failure |-> TRUE, create_missing_directories |-> TRUE,
         verify_path_accessibility |-> TRUE,
         retry_attempts |-> DefaultRetryAttempts]]

ReturnedTrue(v) == [type |-> "returned", value |-> TRUE]

Returned(v) == [type |-> "returned", value |-> v]

Raised(e) == [type |-> "raised", exception |-> e]

\* path.startswith("\\\\")
startswith_unc(path) == Len(path) >= 2 /\ path[1] = "\\" /\ path[2] = "\\"

\* An allowed pattern is held as what re.match(regex_pattern, unc_path,
\* re.IGNORECASE) does with it on the path in hand: it finds a match, finds
\* none, or raises re.error because the converted pattern is no regular
\* expression (the conversion escapes backslashes and stars only).
PatternKinds == {"match", "no_match", "re.error"}

RECURSIVE MatchAny(_)
MatchAny(allowed_patterns) ==
    IF allowed_patterns = <<>> THEN Returned(FALSE)
    ELSE CASE Head(allowed_patterns) = "re.error" -> Raised("re.error")
           [] Head(allowed_patterns) = "match" -> Returned(TRUE)
           [] OTHER -> MatchAny(Tail(allowed_patterns))

validate_unc_path(cfg, unc_path) ==
    IF ~startswith_unc(unc_path) THEN Returned(FALSE)
    ELSE LET security_config == Get(cfg, "security", EmptyDict)
             allowed_patterns == Get(security_config, "allowed_unc_patterns", <<>>)
         IN  IF Get(security_config, "validate_unc_path", FALSE)
                /\ allowed_patterns # <<>>
             THEN MatchAny(allowed_patterns)
             ELSE Returned(TRUE)

\* ---- the patterns as text: one character per element
\* re.IGNORECASE on the letters in use
Lower(c) ==
    CASE c = "A" -> "a"
      [] c = "B" -> "b"
      [] OTHER -> c

\* str.replace(old, new) for a one-character old
RECURSIVE replace(_, _, _)
replace(s, old, new) ==
    IF s = <<>> THEN <<>>
    ELSE (IF Head(s) = old THEN new ELSE <<Head(s)>>)
         \o replace(Tail(s), old, new)

\* line 72: pattern.replace("\\", "\\\\").replace("*", ".*")
regex_pattern(pattern) ==
    replace(replace(pattern, "\\", <<"\\", "\\">>), "*", <<".", "*">>)

\* re.compile on a converted pattern: an opening parenthesis that is never
\* closed is no regular expression
re_compiles(rx) == \A i \in DOMAIN rx : rx[i] # "("

\* re.match: the expression is matched from the start of the string and need
\* not reach its end. In a converted pattern a backslash is always doubled
\* (a literal backslash) and a star always follows a dot.
RECURSIVE re_match_from(_, _)
re_match_from(rx, s) ==
    IF rx = <<>> THEN TRUE
    ELSE IF Len(rx) >= 2 /\ rx[1] = "." /\ rx[2] = "*"
    THEN \E k \in 0..Len(s) :
            re_match_from(SubSeq(rx, 3, Len(rx)), SubSeq(s, k + 1, Len(s)))
    ELSE IF s = <<>> THEN FALSE
    ELSE IF Len(rx) >= 2 /\ rx[1] = "\\" /\ rx[2] = "\\"
    THEN s[1] = "\\" /\ re_match_from(SubSeq(rx, 3, Len(rx)), Tail(s))
    ELSE IF rx[1] = "."
    THEN re_match_from(Tail(rx), Tail(s))
    ELSE Lower(rx[1]) = Lower(s[1]) /\ re_match_from(Tail(rx), Tail(s))

\* line 73: re.match(regex_pattern, unc_path, re.IGNORECASE)
re_match(rx, unc_path) ==
    IF ~re_compiles(rx) THEN "re.error"
    ELSE IF re_match_from(rx, unc_path) THEN "match" ELSE "no_match"

\* the configuration with each allowed pattern replaced by what line 73
\* makes of it on unc_path
WithMatchOutcomes(cfg, unc_path) ==
    IF "security" \notin DOMAIN cfg
       \/ "allowed_unc_patterns" \notin DOMAIN cfg.security
    THEN cfg
    ELSE [cfg EXCEPT !.security.allowed_unc_patterns =
            [i \in DOMAIN @ |-> re_match(regex_pattern(@[i]), unc_path)]]

\* What the file system does to the calls of one step: os.path.exists,
\* os.makedirs, writing and removing the test file, shutil.copy2 (TRUE: the
\* call does its work, FALSE: it raises; for exists: the directory is there)
FsOutcomes ==
    [exists : BOOLEAN, makedirs : BOOLEAN, write : BOOLEAN, remove : BOOLEAN,
     copy2 : BOOLEAN]

check_unc_accessibility_unremoved(cfg, fs) ==
    LET create == Get(Get(cfg, "fallback_options", EmptyDict),
                      "create_missing_directories", TRUE)
    IN  /\ fs.exists \/ (create /\ fs.makedirs)
        /\ fs.write

check_unc_accessibility(cfg, fs) ==
    LET create == Get(Get(cfg, "fallback_options", EmptyDict),
                      "create_missing_directories", TRUE)
    IN  /\ fs.exists \/ (create /\ fs.makedirs)
        /\ fs.write
        /\ fs.remove

\* the file-system calls check_unc_accessibility makes, in order, each with
\* whether it did its work (for exists: whether the directory was there)
OsCall(fn, ok) == [fn |-> fn, ok |-> ok]

ProbeCalls(cfg, fs) ==
    LET create == Get(Get(cfg, "fallback_options", EmptyDict),
                      "create_missing_directories", TRUE)
        directory ==
            <<OsCall("os.path.exists", fs.exists)>>
            \o (IF ~fs.exists /\ create
                THEN <<OsCall("os.makedirs", fs.makedirs)>> ELSE <<>>)
        test_file ==
            <<OsCall("open", fs.write)>>
            \o (IF fs.write THEN <<OsCall("os.remove", fs.remove)>> ELSE <<>>)
    IN  IF fs.exists \/ (create /\ fs.makedirs)
        THEN directory \o test_file
        ELSE directory

\* the try block shared by the copy loop, _fallback_to_local and
\* _create_local_backup: make the directory if it is missing, then copy
CopyWorks(fs) == (fs.exists \/ fs.makedirs) /\ fs.copy2

\* _fallback_to_local: the option is looked up in the dictionary it is given
FallbackAllowed(output_config) ==
    Get(output_config, "use_local_on_unc_failure", TRUE)

\* ---- resolution of the output path
\* os.path is posixpath or ntpath, after the platform the program runs on
OsNames == {"posix", "nt"}

Seps == {"/", "\\"}

\* os.getcwd()
Cwd(os_name) ==
    IF os_name = "posix" THEN <<"/", "work">> ELSE <<"C:", "\\", "work">>

\* ntpath.splitdrive(path)[0]: the \\server\share of a network path, or the
\* drive letter
splitdrive(path) ==
    IF Len(path) >= 5 /\ path[1] \in Seps /\ path[2] \in Seps
    THEN SubSeq(path, 1, 5)
    ELSE IF path # <<>> /\ path[1] = "C:" THEN <<"C:">> ELSE <<>>

\* os.path.join(a, b): posixpath lets an absolute b replace a and puts "/"
\* after an a that does not end in one; ntpath keeps the drive of a before
\* a rooted b and puts "\" after an a that ends in neither separator
join(os_name, a, b) ==
    IF os_name = "posix"
    THEN IF b # <<>> /\ b[1] = "/" THEN b
         ELSE IF a = <<>> \/ a[Len(a)] = "/" THEN a \o b
         ELSE a \o <<"/">> \o b
    ELSE IF b # <<>> /\ b[1] \in Seps THEN splitdrive(a) \o b
         ELSE IF a = <<>> \/ a[Len(a)] \in Seps THEN a \o b
         ELSE a \o <<"\\">> \o b

\* os.path.abspath(path) = normpath(join(os.getcwd(), path)); ntpath's
\* normpath turns every "/" into "\"
abspath(os_name, path) ==
    IF os_name = "posix"
    THEN join(os_name, Cwd(os_name), path)
    ELSE replace(join(os_name, Cwd(os_name), path), "/", <<"\\">>)

\* lines 136-143: the variables computed from datetime.now()
Now ==
    [timestamp |-> "20261102_093000", date |-> "2026-11-02", year |-> "2026",
     month |-> "11", day |-> "02"]

\* dict.update
update(d, other) ==
    [k \in DOMAIN d \cup DOMAIN other |->
        IF k \in DOMAIN other THEN other[k] ELSE d[k]]

\* the name of a replacement field, "" for any other piece of a template
FieldName(piece) ==
    CASE piece = "{timestamp}" -> "timestamp"
      [] piece = "{date}" -> "date"
      [] piece = "{project_name}" -> "project_name"
      [] OTHER -> ""

\* filename_template.format(**default_vars)
format(template, variables) ==
    IF \E i \in DOMAIN template :
          FieldName(template[i]) # "" /\ FieldName(template[i]) \notin DOMAIN variables
    THEN Raised("KeyError")
    ELSE Returned([i \in DOMAIN template |->
                     IF FieldName(template[i]) # ""
                     THEN variables[FieldName(template[i])]
                     ELSE template[i]])

is_unc_enabled(cfg) ==
    Get(Get(cfg, "output_paths", EmptyDict), "unc_drive_enabled", FALSE)

\* os.path.dirname(path), with the separator that ends it
RECURSIVE dirname(_)
dirname(path) ==
    IF path = <<>> \/ path[Len(path)] \in Seps THEN path
    ELSE dirname(SubSeq(path, 1, Len(path) - 1))

local_path_keeping_directory(o, filename_override) ==
    dirname(Get(o, "default_local", DefaultLocal)) \o filename_override

\* line 120: filename_override or output_config.get("default_local", ...);
\* filename_override is <<>> when it is None or ""
local_path(o, filename_override) ==
    IF filename_override # <<>> THEN filename_override
    ELSE Get(o, "default_local", DefaultLocal)

default_vars_computed_first(template_vars) == update(template_vars, Now)

\* lines 137-144: default_vars.update(template_vars)
default_vars(template_vars) == update(Now, template_vars)

\* lines 113-159
get_output_path(os_name, cfg, filename_override, template_vars) ==
    LET o == Get(cfg, "output_paths", EmptyDict)
        unc_base == Get(o, "unc_base_path", <<>>)
        filename_template == Get(o, "unc_filename_template", DefaultTemplate)
        rendered == format(filename_template, default_vars(template_vars))
        filename ==
            IF filename_override # <<>> THEN filename_override
            ELSE IF rendered.type = "raised"
                 THEN <<"combined_sheets_",
                        default_vars(template_vars).timestamp, ".xlsx">>
                 ELSE rendered.value
    IN  IF ~is_unc_enabled(cfg)
        THEN abspath(os_name, local_path(o, filename_override))
        ELSE IF unc_base = <<>>
        THEN abspath(os_name, Get(o, "default_local", DefaultLocal))
        ELSE replace(join(os_name, unc_base, filename), "/", <<"\\">>)

\* ================================================================== state
VARIABLES
    qm,              \* the global QuotaMonitor (record described above)
    today,           \* datetime.now().date()
    since_called,    \* per wrapped function: time.time() - last_called[0]
    pc,              \* position of the caller inside quota_aware_api_call
    func,            \* the wrapped function being invoked
    attempt,         \* loop variable of retry_on_quota_error
    last_exception,  \* retry_on_quota_error's last_exception
    pending,         \* what the current attempt's func(...) produced
    outcome,         \* what the invocation returned or raised
    trace,           \* steps of the invocation so far: <<attempt, step>>
    sleeps,          \* backoff sleeps of the invocation so far (ticks)
    last,            \* the tracker call made by the latest step, if any
    n_calls,         \* invocations / direct calls made in this run
    call_count,      \* while every invocation has returned from its first
                     \* attempt: how often func, enforce_rate_limit and the
                     \* tracker's log call have been called, and the argument
                     \* of the latest enforce_rate_limit call
    config,          \* UNCPathManager.config, the loaded JSON object
    target_path,     \* save_file_safely's target_path
    save_pc,         \* position of the caller inside save_file_safely
    save_attempt,    \* loop variable of save_file_safely
    save_result,     \* what save_file_safely returned or raised
    file_ops,        \* file-system operations of the delivery so far
    copied_to,       \* where a copy of source_file has been written
    unc_save_pc,     \* position of the caller inside _save_with_unc_support
    temp_file,       \* the temporary file: "none", "exists", "removed", or
                     \* "unlink_failed" (it exists, os.unlink raised)
    unc_save_result, \* what _save_with_unc_support returned
    config_file,     \* the configuration file on disk
    used_sheet_names,\* ExcelCombiner.used_sheet_names
    sheet_names,     \* what _sanitize_sheet_name has returned, in order
    sanitizing,      \* the locals of the running _sanitize_sheet_name call
    call             \* the latest call made on the UNCPathManager by itself:
                     \* its name, its arguments and what it produced

governor_vars == <<qm, today, since_called, pc, func, attempt, last_exception,
                   pending, outcome, trace, sleeps, last, n_calls, call_count>>

combiner_vars == <<unc_save_pc, temp_file, unc_save_result>>

resolver_vars == <<config_file, call>>

sheet_vars == <<used_sheet_names, sheet_names, sanitizing>>

delivery_vars == <<config, target_path, save_pc, save_attempt, save_result,
                   file_ops, copied_to, unc_save_pc, temp_file, unc_save_result,
                   config_file, call, used_sheet_names, sheet_names, sanitizing>>

vars == <<qm, today, since_called, pc, func, attempt, last_exception, pending,
          outcome, trace, sleeps, last, n_calls, call_count, config,
          target_path, save_pc,
          save_attempt, save_result, file_ops, copied_to, unc_save_pc,
          temp_file, unc_save_result, config_file, call, used_sheet_names,
          sheet_names, sanitizing>>

\* The functions decorated with quota_aware_api_call(api_type, operation_type):
\* three methods of the program, and "func", any other callable handed to
\* the decorator (here with api_type="sheets", operation_type="read")
Wrapped == {"find_existing_conversion", "get_sheet_metadata",
            "extract_worksheet_data", "func"}

api_type(f) == IF f = "find_existing_conversion" THEN "drive" ELSE "sheets"

operation_type(f) == IF f = "find_existing_conversion" THEN "query" ELSE "read"

\* rate_limit(calls_per_second=10 if api_type == "drive" else 5)
calls_per_second(f) == IF api_type(f) = "drive" THEN 10 ELSE 5

min_interval(f) == TicksPerSecond \div calls_per_second(f)

\* What the API request made by call n can produce: its own result object,
\* or its own exception object (an HttpError with a status, or another one)
HttpStatuses == {429, 503, 404}
None == [type |-> "None"]
Data(n) == [type |-> "result", attempt |-> n, value |-> "data", caught |-> None]

\* return {} / return None in an except clause of the method body
Empty(n, e) == [type |-> "result", attempt |-> n, value |-> "empty", caught |-> e]

Responses(n) ==
    {Data(n)}
    \cup [type : {"HttpError"}, status : HttpStatuses, attempt : {n}]
    \cup [type : {"Exception"}, attempt : {n}]

\* the except clauses inside the body of the decorated function f
CatchesNothing(f) == {}

Catches(f) ==
    CASE f \in {"find_existing_conversion", "get_sheet_metadata"} -> {"HttpError"}
      [] f = "extract_worksheet_data" -> {"HttpError", "Exception"}
      [] OTHER -> {}

\* What call n of the wrapped function f produces when its request gives r
Body(f, n, r) == IF r.type \in Catches(f) THEN Empty(n, r) ELSE r

Produced(f, n) == {Body(f, n, r) : r \in Responses(n)}

OpTime == 1                  \* duration of one call of the wrapped function
OpTimes == {OpTime}
IdleTimes == {1, 600, 1000}  \* time the caller lets pass between calls
SheetsStart == {0, 281}      \* sheets calls recorded when the run starts
DriveStart == {0, 951}       \* drive reads recorded when the run starts
SheetsBurst == {0, 280, 300} \* the same, for runs of direct tracker calls

\* time passing: every elapsed time grows by d, up to its cap
Elapse(m, d) ==
    [m EXCEPT !.minute_elapsed = Min(@ + d, MaxMinuteElapsed),
              !.hundred_elapsed = Min(@ + d, MaxHundredElapsed)]

ElapseCalled(sc, d) == [f \in Wrapped |-> Min(sc[f] + d, MaxSinceCalled)]

Quiet(m) == [m EXCEPT !.printed = <<>>]

NoCall == [op |-> "none"]

\* Call counts as a test's mocks keep them (call_count, assert_called_with),
\* kept while every invocation so far has returned from its first attempt
NothingCalled ==
    [func |-> 0, enforce_rate_limit |-> 0, log_request |-> 0,
     enforce_arg |-> "none", first_try |-> TRUE]

NotCounted ==
    [func |-> 0, enforce_rate_limit |-> 0, log_request |-> 0,
     enforce_arg |-> "none", first_try |-> FALSE]

Counted(c, name, arg) ==
    IF c.first_try
    THEN [c EXCEPT ![name] = @ + 1, !.enforce_arg = arg]
    ELSE c

\* QuotaMonitor() followed by s sheets calls and d drive reads recorded at
\* once; last_called = [0.0] lies further back than any min_interval.
Started(s, d) ==
    [drive_requests |-> d, sheets_requests |-> s, drive_queries |-> 0,
     daily_drive_quota |-> d, last_reset |-> 0,
     minute_elapsed |-> 0, hundred_elapsed |-> 0, printed |-> <<>>]

InitRest ==
    /\ today = 0
    /\ since_called = [f \in Wrapped |-> MaxSinceCalled]
    /\ pc = "idle"
    /\ func = "none"
    /\ attempt = 0
    /\ last_exception = None
    /\ pending = None
    /\ outcome = None
    /\ trace = <<>>
    /\ sleeps = <<>>
    /\ last = NoCall
    /\ n_calls = 0
    /\ call_count = NothingCalled

\* ExcelCombiner(): self.used_sheet_names = set()
NoSheetNames ==
    /\ used_sheet_names = {}
    /\ sheet_names = <<>>
    /\ sanitizing = None

\* ExcelCombiner.save has not been called
NoUncSave ==
    /\ unc_save_pc = "idle"
    /\ temp_file = "none"
    /\ unc_save_result = None

\* no delivery is under way: the manager was built without a configuration
\* file, and nothing has been called on it
NoDelivery ==
    /\ NoUncSave
    /\ config = _get_default_config
    /\ config_file = [state |-> "missing"]
    /\ call = None
    /\ target_path = <<>>
    /\ save_pc = "idle"
    /\ save_attempt = 0
    /\ save_result = None
    /\ file_ops = <<>>
    /\ copied_to = {}

Init ==
    /\ \E s \in SheetsStart, d \in DriveStart : qm = Started(s, d)
    /\ InitRest
    /\ NoDelivery
    /\ NoSheetNames

TrackerInit ==
    /\ \E s \in SheetsBurst, d \in DriveStart : qm = Started(s, d)
    /\ InitRest
    /\ NoDelivery
    /\ NoSheetNames

\* ----------------------------------------------------------- environment
\* the caller lets time pass between two calls
Idle ==
    /\ pc \in {"idle", "done"}
    /\ \E d \in IdleTimes :
          /\ qm' = Elapse(qm, d)
          /\ since_called' = ElapseCalled(since_called, d)
    /\ pc' = "waited"
    /\ UNCHANGED <<today, func, attempt, last_exception, pending, outcome,
                   trace, sleeps, last, n_calls, call_count>>
    /\ UNCHANGED delivery_vars

\* the calendar date changes
Midnight ==
    /\ today < MaxDays
    /\ today' = today + 1
    /\ UNCHANGED <<qm, since_called, pc, func, attempt, last_exception, pending,
                   outcome, trace, sleeps, last, n_calls, call_count>>
    /\ UNCHANGED delivery_vars

\* ------------------------------------------------- direct tracker calls
\* the effect of one call of the tracker, c = [op |-> ..., arg |-> ...]
Apply(m, c, day) ==
    CASE c.op = "log_drive_request" -> log_drive_request(m, c.arg, day)
      [] c.op = "log_sheets_request" -> log_sheets_request(m, c.arg, day)
      [] c.op = "log_drive_query" -> log_drive_query(m, day)
      [] OTHER -> m

DirectCalls ==
    [op : {"log_drive_request"}, arg : OperationTypes]
    \cup [op : {"log_sheets_request"}, arg : SheetsOperationTypes]
    \cup {[op |-> "log_drive_query", arg |-> "query"]}

Direct(c) ==
    /\ pc \in {"idle", "waited"}
    /\ n_calls < MaxDirectCalls
    /\ qm' = Apply(Quiet(qm), c, today)
    /\ last' = c
    /\ n_calls' = n_calls + 1
    /\ pc' = "idle"
    /\ UNCHANGED <<today, since_called, func, attempt, last_exception, pending,
                   outcome, trace, sleeps, call_count>>
    /\ UNCHANGED delivery_vars

DirectLogDrive == \E k \in OperationTypes : Direct([op |-> "log_drive_request", arg |-> k])

DirectLogSheets == \E k \in SheetsOperationTypes : Direct([op |-> "log_sheets_request", arg |-> k])

DirectLogQuery == Direct([op |-> "log_drive_query", arg |-> "query"])

\* quota_monitor.get_status(): arg holds the dictionary returned
GetStatus == Direct([op |-> "get_status", arg |-> get_status(qm)])

\* --------------------------------------------- quota_aware_api_call steps
Step(n, name) == <<n, name>>

RetryableAnyStatus(status) == status >= 400

\* retry_on_quota_error: the statuses that are retried
Retryable(status) == status = 429 \/ status \in {500, 502, 503, 504}

wait_time_from_one(n) == Pow(backoff_factor, n + 1) * TicksPerSecond

\* wait_time = backoff_factor ** attempt, in ticks
wait_time(n) == Pow(backoff_factor, n) * TicksPerSecond

InRangeOneMore(n) == n < max_retries + 2

\* for attempt in range(max_retries + 1): is n still in the range
InRange(n) == n < max_retries + 1

RememberFirst(prev, e) == IF prev = None THEN e ELSE prev

\* last_exception = e
Remember(prev, e) == e

UsageLogDriveOnly(api, op) == [op |-> "log_drive_request", arg |-> op]

\* the tracker call of lines 115-118
UsageLog(api, op) ==
    IF api = "drive" THEN [op |-> "log_drive_request", arg |-> op]
    ELSE IF api = "sheets" THEN [op |-> "log_sheets_request", arg |-> op]
    ELSE NoCall

AttemptStepsPauseOutermost == <<"pause", "enforce", "spacing">>

\* The steps of one attempt before func is called, in the order in which
\* the stacked decorators run them: rate_limit's wrapper is entered first,
\* the innermost wrapper (pause, enforce_rate_limit) after it.
AttemptSteps == <<"spacing", "pause", "enforce">>

FirstStep == AttemptSteps[1]

AfterPauseTheCall(step) == IF step = "spacing" THEN "pause" ELSE "call"

After(step) ==
    LET i == CHOOSE j \in DOMAIN AttemptSteps : AttemptSteps[j] = step
    IN  IF i < Len(AttemptSteps) THEN AttemptSteps[i + 1] ELSE "call"

\* a caller invokes the decorated function f
Begin(f) ==
    /\ pc \in {"idle", "waited", "done"}
    /\ n_calls < MaxInvocations
    /\ pc' = FirstStep
    /\ func' = f
    /\ attempt' = 0
    /\ last_exception' = None
    /\ pending' = None
    /\ outcome' = None
    /\ trace' = <<>>
    /\ sleeps' = <<>>
    /\ last' = NoCall
    /\ n_calls' = n_calls + 1
    /\ UNCHANGED <<qm, today, since_called, call_count>>
    /\ UNCHANGED delivery_vars

Invoke == \E f \in Wrapped : Begin(f)

\* rate_limit.wrapper, before func: sleep what is left of min_interval
Spacing ==
    /\ pc = "spacing"
    /\ LET elapsed == since_called[func]
           left_to_wait == min_interval(func) - elapsed
           d == IF left_to_wait > 0 THEN left_to_wait ELSE 0
       IN  /\ qm' = Elapse(qm, d)
           /\ since_called' = ElapseCalled(since_called, d)
    /\ trace' = Append(trace, Step(attempt, "spacing"))
    /\ pc' = After("spacing")
    /\ UNCHANGED <<today, func, attempt, last_exception, pending, outcome,
                   sleeps, last, n_calls, call_count>>
    /\ UNCHANGED delivery_vars

\* quota_aware_api_call.wrapper: pause when should_pause_for_quota says so
PauseCheck ==
    /\ pc = "pause"
    /\ LET pause_time == should_pause_for_quota(qm)
       IN  /\ qm' = Elapse(qm, pause_time)
           /\ since_called' = ElapseCalled(since_called, pause_time)
    /\ trace' = Append(trace, Step(attempt, "pause"))
    /\ pc' = After("pause")
    /\ UNCHANGED <<today, func, attempt, last_exception, pending, outcome,
                   sleeps, last, n_calls, call_count>>
    /\ UNCHANGED delivery_vars

\* quota_aware_api_call.wrapper: quota_monitor.enforce_rate_limit(api_type)
Enforce ==
    /\ pc = "enforce"
    /\ LET d == enforce_rate_limit(qm, api_type(func))
       IN  /\ qm' = Elapse(qm, d)
           /\ since_called' = ElapseCalled(since_called, d)
    /\ trace' = Append(trace, Step(attempt, "enforce"))
    /\ pc' = After("enforce")
    /\ call_count' = Counted(call_count, "enforce_rate_limit", api_type(func))
    /\ UNCHANGED <<today, func, attempt, last_exception, pending, outcome,
                   sleeps, last, n_calls>>
    /\ UNCHANGED delivery_vars

\* result = func(*args, **kwargs): returns a result or raises
Call ==
    /\ pc = "call"
    /\ \E d \in OpTimes, r \in Produced(func, attempt) :
          /\ qm' = Elapse(qm, d)
          /\ since_called' = ElapseCalled(since_called, d)
          /\ pending' = r
          /\ pc' = IF r.type = "result" THEN "record" ELSE "except"
          /\ call_count' = IF r.type = "result"
                           THEN Counted(call_count, "func", call_count.enforce_arg)
                           ELSE NotCounted
    /\ trace' = Append(trace, Step(attempt, "call"))
    /\ UNCHANGED <<today, func, attempt, last_exception, outcome, sleeps,
                   last, n_calls>>
    /\ UNCHANGED delivery_vars

CompletedWhenCalled(sc, f) == [sc EXCEPT ![f] = Min(OpTime, MaxSinceCalled)]

\* last_called[0] = time.time() of the rate_limit wrapper of f, reached when
\* the wrapped attempt has returned
Completed(sc, f) == [sc EXCEPT ![f] = 0]

\* func returned: log the request, return through rate_limit (which sets
\* last_called[0] = time.time()) and through retry_on_quota_error
Record ==
    /\ pc = "record"
    /\ last' = UsageLog(api_type(func), operation_type(func))
    /\ qm' = Apply(Quiet(qm), last', today)
    /\ since_called' = Completed(since_called, func)
    /\ trace' = IF last' = NoCall THEN trace
                ELSE Append(trace, Step(attempt, "record"))
    /\ outcome' = [type |-> "returned", value |-> pending]
    /\ call_count' = IF last' = NoCall THEN call_count
                     ELSE Counted(call_count, "log_request", call_count.enforce_arg)
    /\ pc' = "done"
    /\ UNCHANGED <<today, func, attempt, last_exception, pending, sleeps, n_calls>>
    /\ UNCHANGED delivery_vars

\* func raised: the except clauses of retry_on_quota_error
Handle ==
    /\ pc = "except"
    /\ IF pending.type = "HttpError" /\ Retryable(pending.status)
       THEN /\ last_exception' = Remember(last_exception, pending)
            /\ qm' = Elapse(qm, wait_time(attempt))
            /\ since_called' = ElapseCalled(since_called, wait_time(attempt))
            /\ sleeps' = Append(sleeps, wait_time(attempt))
            /\ attempt' = attempt + 1
            /\ IF InRange(attempt + 1)
               THEN pc' = FirstStep /\ outcome' = outcome
               ELSE /\ pc' = "done"
                    /\ outcome' = [type |-> "raised", exception |-> last_exception']
       ELSE /\ last_exception' = IF pending.type = "HttpError"
                                 THEN Remember(last_exception, pending)
                                 ELSE last_exception
            /\ outcome' = [type |-> "raised", exception |-> pending]
            /\ pc' = "done"
            /\ UNCHANGED <<qm, since_called, sleeps, attempt>>
    /\ UNCHANGED <<today, func, pending, trace, last, n_calls, call_count>>
    /\ UNCHANGED delivery_vars

Next ==
    \/ Invoke
    \/ Spacing
    \/ PauseCheck
    \/ Enforce
    \/ Call
    \/ Record
    \/ Handle
    \/ Idle

\* calls made through the executor within one calendar day
Spec == Init /\ [][Next]_vars

\* the caller keeps running an invocation it has begun
Running == Spacing \/ PauseCheck \/ Enforce \/ Call \/ Record \/ Handle

FairSpec == Spec /\ WF_vars(Running)

TrackerNext ==
    \/ DirectLogDrive
    \/ DirectLogSheets
    \/ DirectLogQuery
    \/ GetStatus
    \/ Idle
    \/ Midnight

\* calls made on the tracker itself, over changing dates
TrackerSpec == TrackerInit /\ [][TrackerNext]_vars

\* ------------------------------------------------------ save_file_safely
\* the paths a caller asks delivery to write to: a network path and a local one
Targets == {<<"\\", "\\", "server", "\\", "share", "\\", "combined.xlsx">>,
            <<"exports", "/", "combined.xlsx">>}

PatternLists == UNION {[1..n -> PatternKinds] : n \in 0..MaxPatterns}

SecurityConfigs ==
    {[validate_unc_path |-> FALSE, allowed_unc_patterns |-> <<"no_match">>]}
    \cup {[validate_unc_path |-> TRUE, allowed_unc_patterns |-> ps] :
             ps \in PatternLists}

\* "output_paths" as _get_default_config lays it out, and the same with the
\* key that _fallback_to_local looks up in it
OutputPaths ==
    {[default_local |-> DefaultLocal, unc_drive_enabled |-> TRUE,
      backup_to_local |-> b] : b \in BOOLEAN}
    \cup {[default_local |-> DefaultLocal, unc_drive_enabled |-> TRUE,
           backup_to_local |-> b, use_local_on_unc_failure |-> FALSE] :
             b \in BOOLEAN}

FallbackOptions ==
    [use_local_on_unc_failure : BOOLEAN, create_missing_directories : BOOLEAN,
     verify_path_accessibility : BOOLEAN, retry_attempts : 0..MaxRetryAttempts]

\* the configuration files: with and without a "security" section
Configs ==
    {[output_paths |-> o, fallback_options |-> f] :
        o \in OutputPaths, f \in FallbackOptions}
    \cup {[output_paths |-> o, fallback_options |-> f, security |-> sc] :
             o \in OutputPaths, f \in FallbackOptions, sc \in SecurityConfigs}

output_config == Get(config, "output_paths", EmptyDict)

fallback_config == Get(config, "fallback_options", EmptyDict)

retry_attempts == Get(fallback_config, "retry_attempts", DefaultRetryAttempts)

LoopAtOneMore(n) == IF n <= retry_attempts THEN "copy" ELSE "fallback"

\* for attempt in range(retry_attempts): where the caller is at index n
LoopAt(n) == IF n < retry_attempts THEN "copy" ELSE "fallback"

FileOp(op, to, ok) == [op |-> op, to |-> to, ok |-> ok]

AfterProbeCopyAnyway(ok) == LoopAt(0)

\* lines 173-175: an inaccessible path goes to the fallback, else the loop
AfterProbe(ok) == IF ok THEN LoopAt(0) ELSE "fallback"

AfterValidateCopyAnyway(valid) ==
    IF Get(fallback_config, "verify_path_accessibility", TRUE)
    THEN "probe" ELSE LoopAt(0)

\* lines 168-172: an invalid path goes to the fallback, a valid one to the
\* probe when verify_path_accessibility is set, else to the loop
AfterValidate(valid) ==
    IF ~valid THEN "fallback"
    ELSE IF Get(fallback_config, "verify_path_accessibility", TRUE)
         THEN "probe"
         ELSE LoopAt(0)

BackupWantedAnyTarget(path) == Get(output_config, "backup_to_local", TRUE)

\* lines 192-193: a backup follows a copy to a network path when configured
BackupWanted(path) ==
    startswith_unc(path) /\ Get(output_config, "backup_to_local", TRUE)

DeliveryInit ==
    /\ qm = Started(0, 0)
    /\ InitRest
    /\ config \in Configs
    /\ config_file = [state |-> "valid", content |-> config]
    /\ call = None
    /\ target_path = <<>>
    /\ save_pc = "idle"
    /\ save_attempt = 0
    /\ save_result = None
    /\ file_ops = <<>>
    /\ copied_to = {}
    /\ NoUncSave
    /\ NoSheetNames

\* a caller calls save_file_safely(source_file, target_path)
SaveFileSafely ==
    /\ save_pc = "idle"
    /\ \E t \in Targets :
          /\ target_path' = t
          /\ save_pc' = IF startswith_unc(t) THEN "validate" ELSE LoopAt(0)
    /\ UNCHANGED <<config, save_attempt, save_result, file_ops, copied_to>>
    /\ UNCHANGED governor_vars
    /\ UNCHANGED sheet_vars
    /\ UNCHANGED resolver_vars
    /\ UNCHANGED combiner_vars

\* if not self.validate_unc_path(target_path): ... (lines 168-172)
Validate ==
    /\ save_pc = "validate"
    /\ LET v == validate_unc_path(config, target_path)
       IN  IF v.type = "raised"
           THEN save_result' = v /\ save_pc' = "done"
           ELSE /\ save_result' = save_result
                /\ save_pc' = AfterValidate(v.value)
    /\ UNCHANGED <<config, target_path, save_attempt, file_ops, copied_to>>
    /\ UNCHANGED governor_vars
    /\ UNCHANGED sheet_vars
    /\ UNCHANGED resolver_vars
    /\ UNCHANGED combiner_vars

\* if not self.check_unc_accessibility(target_path): ... (lines 173-175)
Probe ==
    /\ save_pc = "probe"
    /\ \E fs \in FsOutcomes :
          LET ok == check_unc_accessibility(config, fs)
          IN  /\ file_ops' = Append(file_ops, FileOp("probe", "target", ok))
              /\ save_pc' = AfterProbe(ok)
    /\ UNCHANGED <<config, target_path, save_attempt, save_result, copied_to>>
    /\ UNCHANGED governor_vars
    /\ UNCHANGED sheet_vars
    /\ UNCHANGED resolver_vars
    /\ UNCHANGED combiner_vars

\* one pass of the loop of lines 180-201
CopyAttempt ==
    /\ save_pc = "copy"
    /\ \E fs \in FsOutcomes :
          /\ file_ops' = Append(file_ops, FileOp("copy", "target", CopyWorks(fs)))
          /\ IF CopyWorks(fs)
             THEN /\ copied_to' = copied_to \cup {"target"}
                  /\ save_attempt' = save_attempt
                  /\ IF BackupWanted(target_path)
                     THEN save_pc' = "backup" /\ save_result' = save_result
                     ELSE save_pc' = "done" /\ save_result' = Returned(TRUE)
             ELSE /\ save_attempt' = save_attempt + 1
                  /\ save_pc' = LoopAt(save_attempt + 1)
                  /\ UNCHANGED <<copied_to, save_result>>
    /\ UNCHANGED <<config, target_path>>
    /\ UNCHANGED governor_vars
    /\ UNCHANGED sheet_vars
    /\ UNCHANGED resolver_vars
    /\ UNCHANGED combiner_vars

\* self._create_local_backup(source_file, output_config); return True
Backup ==
    /\ save_pc = "backup"
    /\ \E fs \in FsOutcomes :
          /\ file_ops' = Append(file_ops, FileOp("backup", "local", CopyWorks(fs)))
          /\ copied_to' = IF CopyWorks(fs) THEN copied_to \cup {"local"}
                          ELSE copied_to
    /\ save_result' = Returned(TRUE)
    /\ save_pc' = "done"
    /\ UNCHANGED <<config, target_path, save_attempt>>
    /\ UNCHANGED governor_vars
    /\ UNCHANGED sheet_vars
    /\ UNCHANGED resolver_vars
    /\ UNCHANGED combiner_vars

\* return self._fallback_to_local(source_file, output_config)
Fallback ==
    /\ save_pc = "fallback"
    /\ IF ~FallbackAllowed(output_config)
       THEN /\ save_result' = Returned(FALSE)
            /\ UNCHANGED <<file_ops, copied_to>>
       ELSE \E fs \in FsOutcomes :
               /\ file_ops' = Append(file_ops,
                                     FileOp("fallback", "local", CopyWorks(fs)))
               /\ copied_to' = IF CopyWorks(fs) THEN copied_to \cup {"local"}
                               ELSE copied_to
               /\ save_result' = Returned(CopyWorks(fs))
    /\ save_pc' = "done"
    /\ UNCHANGED <<config, target_path, save_attempt>>
    /\ UNCHANGED governor_vars
    /\ UNCHANGED sheet_vars
    /\ UNCHANGED resolver_vars
    /\ UNCHANGED combiner_vars

\* ExcelCombiner._save_with_unc_support(unc_path), up to its call of
\* save_file_safely(temp_path, unc_path): the temporary file is created
\* (delete=False) and the workbook saved into it; an exception of either
\* goes to the except clause of line 156, which returns False
SaveWithUncSupport ==
    /\ unc_save_pc = "idle"
    /\ save_pc = "idle"
    /\ \E created \in BOOLEAN, saved \in BOOLEAN :
          /\ temp_file' = IF created THEN "exists" ELSE "none"
          /\ IF created /\ saved
             THEN /\ unc_save_pc' = "deliver"
                  /\ unc_save_result' = unc_save_result
                  /\ \E t \in {u \in Targets : startswith_unc(u)} :
                        /\ target_path' = t
                        /\ save_pc' = "validate"
             ELSE /\ unc_save_pc' = "done"
                  /\ unc_save_result' = Returned(FALSE)
                  /\ UNCHANGED <<target_path, save_pc>>
    /\ UNCHANGED <<config, save_attempt, save_result, file_ops, copied_to>>
    /\ UNCHANGED governor_vars
    /\ UNCHANGED sheet_vars
    /\ UNCHANGED resolver_vars

\* _save_with_unc_support after save_file_safely: os.unlink(temp_path) in
\* its own try block, then the result is passed on; an exception that left
\* save_file_safely goes to the except clause of line 156
CleanUp ==
    /\ unc_save_pc = "deliver"
    /\ save_pc = "done"
    /\ IF save_result.type = "raised"
       THEN /\ unc_save_result' = Returned(FALSE)
            /\ temp_file' = temp_file
       ELSE /\ unc_save_result' = Returned(save_result.value)
            /\ \E unlinked \in BOOLEAN :
                  temp_file' = IF unlinked THEN "removed" ELSE "unlink_failed"
    /\ unc_save_pc' = "done"
    /\ UNCHANGED <<config, target_path, save_pc, save_attempt, save_result,
                   file_ops, copied_to>>
    /\ UNCHANGED governor_vars
    /\ UNCHANGED sheet_vars
    /\ UNCHANGED resolver_vars

DeliveryNext ==
    \/ SaveWithUncSupport
    \/ CleanUp
    \/ SaveFileSafely
    \/ Validate
    \/ Probe
    \/ CopyAttempt
    \/ Backup
    \/ Fallback

\* one delivery under any configuration file
DeliverySpec == DeliveryInit /\ [][DeliveryNext]_vars

\* ------------------------------------------------- calls on the manager
\* the text of the paths handed to validate_unc_path and of the allowed
\* patterns, one character per element
PathChars == {"\\", "A", "b"}

PatternChars == {"\\", "a", "*", ".", "("}

SeqsUpTo(S, n) == UNION {[1..k -> S] : k \in 0..n}

UncPrefix == <<"\\", "\\">>

UncPaths ==
    {UncPrefix \o t : t \in SeqsUpTo(PathChars, MaxPathTail)}
    \cup SeqsUpTo(PathChars, MaxPathTail)

Patterns(n) ==
    {UncPrefix \o t : t \in SeqsUpTo(PatternChars, n)} \cup {<<"*">>}

AllowLists ==
    {<<>>}
    \cup {<<p>> : p \in Patterns(MaxPatternTail)}
    \cup {<<p, q>> : p, q \in Patterns(MaxPatternTail - 1)}

\* the "security" section: the switch may be left out, as may the list
SecuritySections ==
    {[validate_unc_path |-> TRUE]}
    \cup {[allowed_unc_patterns |-> l] : l \in AllowLists}
    \cup {[validate_unc_path |-> b, allowed_unc_patterns |-> l] :
             b \in BOOLEAN, l \in AllowLists}

\* the "output_paths" sections: any of the four keys may be left out
Restrict(f, keys) == [k \in keys |-> f[k]]

BasePaths ==
    {<<>>,
     <<"\\", "\\", "server", "\\", "share">>,
     <<"/", "/", "server", "/", "share">>,
     <<"\\", "\\", "server", "\\", "share", "\\">>}

Templates ==
    {<<"combined_", "{timestamp}", ".xlsx">>,
     <<"{project_name}", "_", "{date}", ".xlsx">>,
     <<"report.xlsx">>}

OutputSections ==
    {_get_default_config.output_paths}
    \cup {Restrict(o, keys) :
             o \in [default_local : {<<"exports", "/", "local.xlsx">>},
                    unc_drive_enabled : BOOLEAN,
                    unc_base_path : BasePaths,
                    unc_filename_template : Templates],
             keys \in SUBSET {"default_local", "unc_drive_enabled",
                              "unc_base_path", "unc_filename_template"}}

\* the arguments of get_output_path; <<>> is no override (None or "")
Overrides ==
    {<<>>, <<"x.xlsx">>, <<"reports", "/", "x.xlsx">>,
     <<"/", "tmp", "/", "x.xlsx">>}

TemplateVars ==
    {Restrict([timestamp |-> "run7", project_name |-> "proj"], keys) :
        keys \in SUBSET {"timestamp", "project_name"}}

\* the configuration files: those that carry a security section, and those
\* that differ in their output paths and in directory creation
ManagerConfigs ==
    {[output_paths |-> _get_default_config.output_paths,
      fallback_options |-> _get_default_config.fallback_options,
      security |-> sc] : sc \in SecuritySections}
    \cup {[output_paths |-> o] : o \in OutputSections}
    \cup {[output_paths |-> o,
           fallback_options |-> [create_missing_directories |-> b]] :
             o \in OutputSections, b \in BOOLEAN}

\* what is on disk under config_file: nothing, a file that cannot be opened,
\* bytes that are no text, text that is no JSON, a file removed between
\* os.path.exists and open, or a JSON object
ConfigFiles ==
    [state : {"missing", "unreadable", "undecodable", "malformed", "vanishes"}]
    \cup [state : {"valid"}, content : ManagerConfigs]

\* lines 23-35: only json.JSONDecodeError and FileNotFoundError are caught
_load_config(file) ==
    CASE file.state = "missing" -> Returned(_get_default_config)
      [] file.state = "vanishes" -> Returned(_get_default_config)
      [] file.state = "malformed" -> Returned(_get_default_config)
      [] file.state = "unreadable" -> Raised("PermissionError")
      [] file.state = "undecodable" -> Raised("UnicodeDecodeError")
      [] file.state = "valid" -> Returned(file.content)

\* no manager has been constructed yet
ManagerInit ==
    /\ qm = Started(0, 0)
    /\ InitRest
    /\ NoUncSave
    /\ NoSheetNames
    /\ config_file \in ConfigFiles
    /\ config = None
    /\ call = None
    /\ target_path = <<>>
    /\ save_pc = "idle"
    /\ save_attempt = 0
    /\ save_result = None
    /\ file_ops = <<>>
    /\ copied_to = {}

ManagerUnchanged ==
    /\ UNCHANGED <<config_file, target_path, save_pc, save_attempt, save_result,
                   file_ops, copied_to>>
    /\ UNCHANGED governor_vars
    /\ UNCHANGED sheet_vars
    /\ UNCHANGED combiner_vars

\* UNCPathManager(config_file): self.config = self._load_config()
__init__ ==
    /\ config = None
    /\ call = None
    /\ LET loaded == _load_config(config_file)
       IN  /\ config' = IF loaded.type = "returned" THEN loaded.value ELSE None
           /\ call' = [op |-> "__init__", result |-> loaded]
    /\ ManagerUnchanged

\* the manager exists and nothing has been called on it yet: the calls
\* below leave self.config as it is, so one call after each construction
\* shows all they can do
Constructed ==
    /\ config # None
    /\ "op" \in DOMAIN call
    /\ call.op = "__init__"

\* manager.validate_unc_path(unc_path)
ValidateUncPath ==
    /\ Constructed
    /\ \E unc_path \in UncPaths :
          call' = [op |-> "validate_unc_path", unc_path |-> unc_path,
                   result |-> validate_unc_path(
                                  WithMatchOutcomes(config, unc_path), unc_path)]
    /\ config' = config
    /\ ManagerUnchanged

\* manager.check_unc_accessibility(unc_path)
CheckUncAccessibility ==
    /\ Constructed
    /\ \E fs \in FsOutcomes :
          call' = [op |-> "check_unc_accessibility",
                   os_calls |-> ProbeCalls(config, fs),
                   result |-> Returned(check_unc_accessibility(config, fs))]
    /\ config' = config
    /\ ManagerUnchanged

\* manager.get_output_path(filename_override, template_vars)
GetOutputPath ==
    /\ Constructed
    /\ \E os_name \in OsNames, filename_override \in Overrides,
          template_vars \in TemplateVars :
          call' = [op |-> "get_output_path", os_name |-> os_name,
                   filename_override |-> filename_override,
                   template_vars |-> template_vars,
                   result |-> get_output_path(os_name, config,
                                              filename_override, template_vars)]
    /\ config' = config
    /\ ManagerUnchanged

ManagerNext ==
    \/ __init__
    \/ ValidateUncPath
    \/ CheckUncAccessibility
    \/ GetOutputPath

\* a manager is constructed from any configuration file and then called
ManagerSpec == ManagerInit /\ [][ManagerNext]_vars

\* ------------------------------------- ExcelCombiner._sanitize_sheet_name
\* A sheet name is a sequence of characters.
SheetNameLimit == 31

Rep(c, n) == [i \in 1..n |-> c]

History_Sheet ==
    <<"H", "i", "s", "t", "o", "r", "y", "_", "S", "h", "e", "e", "t">>

\* names handed to _sanitize_sheet_name: empty, reserved, with invalid
\* characters, and around the limit of 31 characters
SheetNameInputs ==
    {<<>>,
     <<"H", "i", "s", "t", "o", "r", "y">>,
     <<"H", "I", "S", "T", "O", "R", "Y">>,
     History_Sheet,
     <<"a", "/", "b">>,
     <<"a", "_", "b">>,
     Rep("a", SheetNameLimit),
     Rep("a", SheetNameLimit + 1),
     Rep("a", SheetNameLimit - 2) \o <<"_", "1">>}

\* invalid_chars = r'[\\/*?\[\]:]'
invalid_chars == {"\\", "/", "*", "?", "[", "]", ":"}

\* re.sub(invalid_chars, '_', name)
re_sub(name) ==
    [i \in DOMAIN name |-> IF name[i] \in invalid_chars THEN "_" ELSE name[i]]

\* str.lower()
lower(name) ==
    LET lower_char(c) ==
            CASE c = "H" -> "h"
              [] c = "I" -> "i"
              [] c = "S" -> "s"
              [] c = "T" -> "t"
              [] c = "O" -> "o"
              [] c = "R" -> "r"
              [] c = "Y" -> "y"
              [] OTHER -> c
    IN  [i \in DOMAIN name |-> lower_char(name[i])]

\* name[:k]
slice_to(name, k) ==
    IF k >= 0 THEN SubSeq(name, 1, Min(k, Len(name)))
    ELSE SubSeq(name, 1, IF Len(name) + k > 0 THEN Len(name) + k ELSE 0)

\* the decimal digits of counter, as f"{counter}" writes them
RECURSIVE str(_)
str(n) ==
    LET digits == <<"0", "1", "2", "3", "4", "5", "6", "7", "8", "9">>
    IN  IF n < 10 THEN <<digits[n + 1]>>
        ELSE str(n \div 10) \o <<digits[(n % 10) + 1]>>

\* suffix = f"_{counter}"
suffix(counter) == <<"_">> \o str(counter)

max_base_length_of_limit(sfx) == SheetNameLimit

\* max_base_length = 31 - len(suffix)
max_base_length(sfx) == SheetNameLimit - Len(sfx)

\* lines 24-33: invalid characters replaced, the reserved name renamed, the
\* result cut to 31 characters
sanitized_name(name) ==
    LET replaced == re_sub(name)
        allowed == IF lower(replaced) = <<"h", "i", "s", "t", "o", "r", "y">>
                   THEN History_Sheet ELSE replaced
    IN  IF Len(allowed) > SheetNameLimit
        THEN slice_to(allowed, SheetNameLimit) ELSE allowed

\* a combiner that has been given the same 31-character name ten times
TenDuplicates ==
    <<Rep("a", SheetNameLimit)>>
    \o [k \in 1..9 |-> Rep("a", SheetNameLimit - 2) \o suffix(k)]

SanitizerInit ==
    /\ qm = Started(0, 0)
    /\ InitRest
    /\ NoDelivery
    /\ sheet_names \in {<<>>, TenDuplicates}
    /\ used_sheet_names = {sheet_names[i] : i \in DOMAIN sheet_names}
    /\ sanitizing = None

SanitizerUnchanged ==
    /\ UNCHANGED <<qm, today, since_called, pc, func, attempt, last_exception,
                   pending, outcome, trace, sleeps, last, call_count>>
    /\ UNCHANGED <<config, target_path, save_pc, save_attempt, save_result,
                   file_ops, copied_to, unc_save_pc, temp_file, unc_save_result,
                   config_file, call>>

\* _sanitize_sheet_name(name) up to the while statement (lines 24-37)
SanitizeSheetName ==
    /\ sanitizing = None
    /\ n_calls < MaxSanitizeCalls
    /\ \E name \in SheetNameInputs :
          sanitizing' = [type |-> "call",
                         sanitized |-> sanitized_name(name),
                         original_sanitized |-> sanitized_name(name),
                         counter |-> 1]
    /\ n_calls' = n_calls + 1
    /\ UNCHANGED <<used_sheet_names, sheet_names>>
    /\ SanitizerUnchanged

\* one pass of the body of while sanitized in self.used_sheet_names
WhileUsed ==
    /\ sanitizing # None
    /\ sanitizing.sanitized \in used_sheet_names
    /\ LET sfx == suffix(sanitizing.counter)
       IN  sanitizing' =
              [sanitizing EXCEPT
                 !.sanitized = slice_to(sanitizing.original_sanitized,
                                        max_base_length(sfx)) \o sfx,
                 !.counter = @ + 1]
    /\ UNCHANGED <<used_sheet_names, sheet_names, n_calls>>
    /\ SanitizerUnchanged

\* self.used_sheet_names.add(sanitized); return sanitized
SanitizeReturn ==
    /\ sanitizing # None
    /\ sanitizing.sanitized \notin used_sheet_names
    /\ used_sheet_names' = used_sheet_names \cup {sanitizing.sanitized}
    /\ sheet_names' = Append(sheet_names, sanitizing.sanitized)
    /\ sanitizing' = None
    /\ n_calls' = n_calls
    /\ SanitizerUnchanged

SanitizerNext ==
    \/ SanitizeSheetName
    \/ WhileUsed
    \/ SanitizeReturn

\* a call that has begun runs on to its return
SanitizerSpec ==
    /\ SanitizerInit
    /\ [][SanitizerNext]_vars
    /\ WF_vars(WhileUsed \/ SanitizeReturn)

\* ============================================================== claims
\* helpers that read the recorded steps of the current invocation
StepsOf(n) == SelectSeq(trace, LAMBDA e : e[1] = n)

Names(sq) == [i \in DOMAIN sq |-> sq[i][2]]

Count(name) == Len(SelectSeq(trace, LAMBDA e : e[2] = name))

Without(sq, name) == SelectSeq(sq, LAMBDA x : x # name)

Range(sq) == {sq[i] : i \in DOMAIN sq}

IsPrefix(a, b) == Len(a) <= Len(b) /\ a = SubSeq(b, 1, Len(a))

InFlight == pc \in {"spacing", "pause", "enforce", "call", "record", "except"}

\* the failure classes of the specification
RateLimited(e) == e.type = "HttpError" /\ e.status = 429

TransientServer(e) == e.type = "HttpError" /\ e.status \in {500, 502, 503, 504}

IsFailure(e) == e.type \in {"HttpError", "Exception"}

Fatal(e) == IsFailure(e) /\ ~RateLimited(e) /\ ~TransientServer(e)

Exhausted ==
    /\ pc = "done"
    /\ Count("call") = max_retries + 1
    /\ IsFailure(pending)
    /\ ~Fatal(pending)

C2_Terminates ==
    /\ [](Count("call") <= max_retries + 1)
    /\ (InFlight ~> pc = "done")

C2_Witness ==
    /\ pc = "done"
    /\ Count("call") = max_retries + 1
    /\ outcome.type = "raised"

\* C3: k retryable failures (of either class) followed by a success cause
\* exactly k backoff sleeps of 1 s * 2^0, ..., 1 s * 2^(k-1), in that order,
\* and the invocation returns the result of attempt k+1.
C3_BackoffSchedule ==
    (pc = "done" /\ outcome.type = "returned") =>
        /\ attempt <= max_retries
        /\ Count("call") = attempt + 1
        /\ sleeps = [i \in 1..attempt |-> TicksPerSecond * Pow(2, i - 1)]
        /\ outcome.value.type = "result"
        /\ outcome.value \in Produced(func, attempt)

C3_Witness ==
    /\ pc = "done"
    /\ outcome.type = "returned"
    /\ attempt = 3
    /\ TransientServer(last_exception)
    /\ sleeps = <<10, 20, 40>>

\* C4: a Fatal failure is never retried: the operation is not called again,
\* no sleep follows it, no usage is recorded and the same error is raised,
\* at the first attempt as at any later one.
C4_FatalNotRetried ==
    /\ (pc = "done" /\ Fatal(pending)) =>
            /\ outcome = [type |-> "raised", exception |-> pending]
            /\ Count("call") = pending.attempt + 1
            /\ trace[Len(trace)] = <<pending.attempt, "call">>
            /\ Len(sleeps) = pending.attempt
            /\ Count("record") = 0
            /\ last = NoCall
    /\ (pc = "except" /\ Fatal(pending)) => Len(sleeps) = pending.attempt

C4_Witness ==
    /\ pc = "done"
    /\ Fatal(pending)
    /\ pending.attempt = 2
    /\ outcome.type = "raised"

\* C5: when all max_retries + 1 attempts fail with a retryable failure, the
\* failure of the last attempt is the one raised, and no usage is recorded.
C5_LastFailureRaised ==
    Exhausted =>
        /\ outcome = [type |-> "raised", exception |-> pending]
        /\ outcome.exception.attempt = max_retries
        /\ Count("record") = 0
        /\ last = NoCall

C5_Witness ==
    /\ Exhausted
    /\ outcome.type = "raised"
    /\ outcome.exception.status = 429

\* C6: no backoff sleep follows the failure of the last permitted attempt:
\* an invocation that uses up its max_retries + 1 attempts has slept
\* max_retries times.
C6_NoSleepAfterLastAttempt ==
    Exhausted => Len(sleeps) = max_retries

\* C7: the record operation of the call's category and operation kind is
\* called exactly once when the invocation succeeds and never when it ends
\* in an error; a failed attempt is never recorded, and the result of the
\* successful attempt is returned unchanged.
C7_RecordedOnceOnSuccess ==
    /\ InFlight => Count("record") = 0 /\ last = NoCall
    /\ (pc = "done" /\ outcome.type = "returned") =>
            /\ Count("record") = 1
            /\ trace[Len(trace)] = <<attempt, "record">>
            /\ last.op = (IF api_type(func) = "drive" THEN "log_drive_request"
                           ELSE "log_sheets_request")
            /\ last.arg = operation_type(func)
            /\ pending.type = "result"
            /\ outcome.value = pending
    /\ (pc = "done" /\ outcome.type = "raised") =>
            Count("record") = 0 /\ last = NoCall

C7_Witness ==
    /\ pc = "done"
    /\ outcome.type = "returned"
    /\ attempt = 2
    /\ api_type(func) = "sheets"
    /\ last.op = "log_sheets_request"

\* a step that is one record call on the tracker
RecordsDrive == n_calls' = n_calls + 1 /\ last'.op = "log_drive_request"

RecordsSheets == n_calls' = n_calls + 1 /\ last'.op = "log_sheets_request"

HasLine(m, l) == \E i \in DOMAIN m.printed : m.printed[i] = l

\* C8 (as claimed): whatever record calls are made and whenever, the window
\* counter of the recorded category, read right after the call, is at most
\* one above its ceiling (300 sheets calls per 60 s, 1000 drive calls per 100 s).
C8_NeverAboveCeiling ==
    /\ last.op = "log_sheets_request" => qm.sheets_requests <= SheetsPerMinute + 1
    /\ last.op = "log_drive_request" => qm.drive_requests <= DrivePer100s + 1

\* C8 (amended): a record call that arrives while should_pause_for_quota
\* reports no wait leaves the window counter of its category, read right
\* after the call, at most one above its soft threshold (281 sheets, 951
\* drive), hence below its ceiling; record calls as such are not limited.
C8_BoundedWhenNoWaitDue ==
    [][should_pause_for_quota(qm) = 0 =>
         /\ RecordsSheets =>
               qm'.sheets_requests <= SheetsSoftLimit + 1
               /\ qm'.sheets_requests <= SheetsPerMinute + 1
         /\ RecordsDrive =>
               qm'.drive_requests <= DriveSoftLimit + 1
               /\ qm'.drive_requests <= DrivePer100s + 1]_vars

C8_Witness ==
    /\ last.op = "log_sheets_request"
    /\ qm.sheets_requests = 0
    /\ HasLine(qm, [line |-> "last_minute", sheets |-> 301])

\* C9: a record call first resets a window that has elapsed and only then
\* counts itself: after a gap of at least the window length the counter of
\* the recorded category reads 1 after the call, and the summary printed for
\* the window that ended shows the count without this call.
C9_ResetThenCount ==
    [][/\ (RecordsSheets /\ qm.minute_elapsed >= MinuteWindow) =>
            /\ qm'.sheets_requests = 1
            /\ qm.sheets_requests > 0 =>
                  HasLine(qm', [line |-> "last_minute",
                                sheets |-> qm.sheets_requests])
       /\ (RecordsDrive /\ qm.hundred_elapsed >= HundredSecondWindow) =>
            /\ qm'.drive_requests = 1
            /\ qm.drive_requests > 0 =>
                  HasLine(qm', [line |-> "last_100s",
                                drive |-> qm.drive_requests,
                                queries |-> qm.drive_queries])]_vars

\* the weight table of the specification
Weight(kind) ==
    CASE kind = "read" -> 1
      [] kind = "write" -> 10
      [] kind = "create" -> 100
      [] kind = "copy" -> 100
      [] kind = "convert" -> 200
      [] kind = "delete" -> 100
      [] OTHER -> 1

\* C10: every drive record call raises the daily weighted total by exactly
\* the weight of its operation kind, in whatever state the call arrives; a
\* call that arrives on a new date raises the total of the new day, which
\* starts at 0.
C10_WeightAdded ==
    [][RecordsDrive =>
         qm'.daily_drive_quota =
             (IF today > qm.last_reset THEN 0 ELSE qm.daily_drive_quota)
             + Weight(last'.arg)]_vars

\* a step that is one record call on the tracker, of whatever kind
RecordsAny ==
    /\ n_calls' = n_calls + 1
    /\ last'.op \in {"log_drive_request", "log_sheets_request", "log_drive_query"}

DailyResets(m) ==
    Cardinality({i \in DOMAIN m.printed : m.printed[i].line = "daily_reset"})

\* C11: a record call resets the daily weighted total exactly when the date
\* at the call is later than the date of the last reset: on a later date it
\* resets once (also with no time elapsed) and moves the reset date to the
\* date of the call, so later calls on that date do not reset again; on the
\* same date it never resets, whatever time has elapsed and whichever
\* windows have rolled over.
C11_DailyResetOnDateChange ==
    [][RecordsAny =>
         IF today > qm.last_reset
         THEN /\ DailyResets(qm') = 1
              /\ qm'.daily_drive_quota = 0
              /\ qm'.last_reset = today
         ELSE /\ DailyResets(qm') = 0
              /\ qm'.daily_drive_quota >= qm.daily_drive_quota
              /\ qm'.last_reset = qm.last_reset]_vars

C11_Witness ==
    /\ today = 1
    /\ qm.last_reset = 1
    /\ last.op = "log_sheets_request"
    /\ DailyResets(qm) = 1
    /\ qm.hundred_elapsed = 0
    /\ qm.drive_requests = 951

\* what is left of each window, and whether its count is above the threshold
MinuteLeft == MinuteWindow - qm.minute_elapsed

HundredLeft == HundredSecondWindow - qm.hundred_elapsed

SheetsOver == qm.sheets_requests > SheetsSoftLimit

DriveOver == qm.drive_requests > DriveSoftLimit

Max(a, b) == IF a > b THEN a ELSE b

\* the wait of the specification: what is left, not below zero, plus 1 s
ClampedWait(left) == Max(left, 0) + TicksPerSecond

WholeSeconds(w) == w % TicksPerSecond = 0

\* C12 (as claimed): whenever the count of a window is above its soft
\* threshold the wait returned is what is left of that window, clamped at
\* zero, plus one second (so at least 1 s also after the window has
\* elapsed); with no count above its threshold no wait is returned.
C12_ClampedWaitPlusOne ==
    LET w == should_pause_for_quota(qm)
    IN  /\ (SheetsOver \/ DriveOver) =>
              \/ SheetsOver /\ w = ClampedWait(MinuteLeft)
              \/ DriveOver /\ w = ClampedWait(HundredLeft)
        /\ ~(SheetsOver \/ DriveOver) => w = 0

\* C12 (amended): a wait is returned only for a window whose count is above
\* its soft threshold and which has not yet elapsed, the 60 s window being
\* looked at first; the wait is the whole number of seconds int(left) + 1,
\* so it is at least 1 s, more than what is left and at most 1 s more.  A
\* count above the threshold in a window that has elapsed gives no wait,
\* as does no count above its threshold.
C12_WaitOnlyWhileWindowOpen ==
    LET w == should_pause_for_quota(qm)
    IN  IF SheetsOver /\ MinuteLeft > 0
        THEN /\ WholeSeconds(w)
             /\ MinuteLeft < w /\ w <= MinuteLeft + TicksPerSecond
        ELSE IF DriveOver /\ HundredLeft > 0
             THEN /\ WholeSeconds(w)
                  /\ HundredLeft < w /\ w <= HundredLeft + TicksPerSecond
             ELSE w = 0

\* the pause-check has just run on a sheets count of 281 whose window had
\* elapsed, and no time has passed in it
C12_Witness ==
    /\ pc = "enforce"
    /\ SheetsOver /\ ~DriveOver
    /\ MinuteLeft <= 0
    /\ qm.hundred_elapsed = MinuteWindow
    /\ trace = <<Step(0, "spacing"), Step(0, "pause")>>

\* the count of the window that belongs to the category of the call in hand
OwnCountOver == IF api_type(func) = "sheets" THEN SheetsOver ELSE DriveOver

\* C13: the pause-check delays a call only when the window count of the
\* call's own category is above its soft threshold; a count of the other
\* category above its threshold never delays it.
C13_PausePerCategory ==
    [][(pc = "pause" /\ qm' # qm) => OwnCountOver]_vars

\* C14: when 281 sheets calls are recorded within one 60 s window, the
\* 281st record call itself prints the near-limit warning.
C14_WarnsAt281 ==
    [][(RecordsSheets /\ qm.sheets_requests = SheetsSoftLimit
          /\ qm.minute_elapsed < MinuteWindow) =>
         /\ qm'.sheets_requests = SheetsSoftLimit + 1
         /\ \E i \in DOMAIN qm'.printed : qm'.printed[i].line = "warn_sheets"]_vars

\* C15: once 281 sheets calls are counted in a 60 s window, the wait
\* returned at any later instant still inside that window is greater than
\* zero and not longer than the window (60 s).
C15_WaitWithinWindow ==
    (qm.sheets_requests = SheetsSoftLimit + 1
        /\ 0 < qm.minute_elapsed /\ qm.minute_elapsed < MinuteWindow) =>
        /\ should_pause_for_quota(qm) > 0
        /\ should_pause_for_quota(qm) <= MinuteWindow

\* the pause-check ran 0.1 s into the window on a count of 281 and slept a
\* whole window
C15_Witness ==
    /\ pc = "enforce"
    /\ trace = <<Step(0, "spacing"), Step(0, "pause")>>
    /\ qm.sheets_requests = SheetsSoftLimit + 1
    /\ qm.hundred_elapsed = MinuteWindow + 1

\* C16: a successful call of kind query made through the executor raises
\* the query sub-counter by one along with the window counter of its
\* category; a call of another kind leaves the query sub-counter as it was
\* (in a window that the call does not find elapsed).
C16_QueryCounted ==
    [][(pc = "record" /\ qm.hundred_elapsed < HundredSecondWindow) =>
         IF operation_type(func) = "query"
         THEN /\ qm'.drive_queries = qm.drive_queries + 1
              /\ qm'.drive_requests = qm.drive_requests + 1
         ELSE qm'.drive_queries = qm.drive_queries]_vars

\* time since the last completed call of a category, whichever wrapped
\* function made it
SinceCategory(cat) ==
    LET fs == {f \in Wrapped : api_type(f) = cat}
    IN  CHOOSE d \in {since_called[f] : f \in fs} :
            \A f \in fs : d <= since_called[f]

\* C17: the spacing is kept per category: whenever an operation is about to
\* be invoked, at least the min_interval of its category (0.1 s drive, 0.2 s
\* sheets) has passed since the last call of that category, whichever
\* wrapped operation made that call.
C17_SpacedPerCategory ==
    pc = "call" => SinceCategory(api_type(func)) >= min_interval(func)

\* no window and no day has elapsed when the step is taken
NothingElapsed ==
    /\ qm.minute_elapsed < MinuteWindow
    /\ qm.hundred_elapsed < HundredSecondWindow
    /\ today = qm.last_reset

\* C18: while no window and no day has elapsed, log_drive_request raises
\* the drive window counter by exactly 1 and log_sheets_request raises the
\* sheets window counter by exactly 1, for every operation kind including
\* an unrecognized one, and each leaves the counter of the other category
\* unchanged.
C18_CountsByOne ==
    [][NothingElapsed =>
         /\ RecordsDrive =>
               /\ qm'.drive_requests = qm.drive_requests + 1
               /\ qm'.sheets_requests = qm.sheets_requests
         /\ RecordsSheets =>
               /\ qm'.sheets_requests = qm.sheets_requests + 1
               /\ qm'.drive_requests = qm.drive_requests]_vars

\* two drive calls, the second of an unrecognized kind, next to 280 sheets
\* calls counted before
C18_Witness ==
    /\ n_calls = 2
    /\ last = [op |-> "log_drive_request", arg |-> "test"]
    /\ qm.drive_requests = 2
    /\ qm.sheets_requests = 280
    /\ qm.minute_elapsed < MinuteWindow
    /\ today = qm.last_reset

\* the delivery has ended one way or the other
Delivered == save_pc = "done"

FailedCopies ==
    Len(SelectSeq(file_ops, LAMBDA o : o.op = "copy" /\ ~o.ok))

\* C19: save_file_safely never raises: under every configuration and every
\* outcome of validation, probe, copies, backup and fallback it ends by
\* returning True or False.
C19_NeverRaises ==
    Delivered => save_result.type = "returned" /\ save_result.value \in BOOLEAN

\* the "fallback_options" section switches the local fallback off
FallbackDisabled ==
    ~Get(fallback_config, "use_local_on_unc_failure", TRUE)

\* C20: with use_local_on_unc_failure false in the fallback options, when all
\* retry_attempts copies to a validated destination have failed, delivery
\* returns False and nothing is written to the local default path.
C20_NoFallbackWhenDisabled ==
    (Delivered /\ FallbackDisabled /\ save_result.type = "returned"
        /\ validate_unc_path(config, target_path) = Returned(TRUE)
        /\ retry_attempts > 0
        /\ FailedCopies = retry_attempts) =>
        /\ save_result.value = FALSE
        /\ "local" \notin copied_to

\* file operations of the delivery, by kind
OpsOf(kind) == SelectSeq(file_ops, LAMBDA o : o.op = kind)

ProbeFailed == \E i \in DOMAIN file_ops : file_ops[i] = FileOp("probe", "target", FALSE)

\* the fallback is enabled in both places a configuration can say so
FallbackEnabled == ~FallbackDisabled /\ FallbackAllowed(output_config)

\* C21 (as claimed): when the probe of the network destination has failed
\* and the fallback is enabled, delivery returns True with the file at the
\* local default path, and no copy to the network destination is attempted.
C21_ProbeFailureDeliversLocally ==
    (Delivered /\ ProbeFailed /\ FallbackEnabled) =>
        /\ save_result = Returned(TRUE)
        /\ "local" \in copied_to
        /\ OpsOf("copy") = <<>>

\* C21 (amended): when the probe of the network destination has failed and
\* the fallback is enabled, no copy to the network destination is attempted
\* and there is no second probe; exactly one copy to the local default is
\* attempted and delivery returns what became of it: True with the file at
\* the local default path when it worked, False with no file written when
\* it failed.
C21_ProbeFailureFallsBackOnce ==
    /\ ProbeFailed => OpsOf("copy") = <<>> /\ Len(OpsOf("probe")) = 1
    /\ (Delivered /\ ProbeFailed /\ FallbackEnabled) =>
          /\ Len(OpsOf("fallback")) = 1
          /\ save_result = Returned(OpsOf("fallback")[1].ok)
          /\ ("local" \in copied_to) = OpsOf("fallback")[1].ok
          /\ "target" \notin copied_to

C21_Witness ==
    /\ Delivered
    /\ FallbackEnabled
    /\ file_ops = <<FileOp("probe", "target", FALSE),
                    FileOp("fallback", "local", FALSE)>>
    /\ save_result = Returned(FALSE)

\* validate_unc_path has returned False for the network path in hand
ValidationFailed ==
    /\ startswith_unc(target_path)
    /\ validate_unc_path(config, target_path) = Returned(FALSE)

AllAttemptsFailed ==
    /\ Len(OpsOf("copy")) = retry_attempts
    /\ FailedCopies = retry_attempts

\* C22: in one delivery the copy to the local default is attempted as a
\* fallback at most once, and only after validation failed, the probe
\* failed or all attempts on the target failed; when it fails nothing
\* follows it and delivery returns False; after a failed validation no copy
\* to (and no probe of) the invalid destination is made and the fallback is
\* what runs.
C22_FallbackOnceAndFinal ==
    /\ Len(OpsOf("fallback")) <= 1
    /\ OpsOf("fallback") # <<>> =>
          /\ ValidationFailed \/ ProbeFailed \/ AllAttemptsFailed
          /\ file_ops[Len(file_ops)].op = "fallback"
          /\ Delivered
          /\ save_result = Returned(OpsOf("fallback")[1].ok)
    /\ ValidationFailed =>
          /\ OpsOf("copy") = <<>> /\ OpsOf("probe") = <<>>
          /\ (Delivered /\ FallbackAllowed(output_config)) =>
                Len(OpsOf("fallback")) = 1

C22_Witness ==
    /\ Delivered
    /\ ValidationFailed
    /\ file_ops = <<FileOp("fallback", "local", FALSE)>>
    /\ save_result = Returned(FALSE)

\* the copy attempts on the target so far are failures, but for the last
OnlyLastCopyWorked ==
    \A i \in DOMAIN OpsOf("copy") : OpsOf("copy")[i].ok => i = Len(OpsOf("copy"))

\* C23: the copies to the target are attempted one after another until one
\* works: never more than retry_attempts of them, exactly retry_attempts
\* when all have failed and the loop is left, and none after the first one
\* that worked.
C23_AttemptsBounded ==
    /\ Len(OpsOf("copy")) <= retry_attempts
    /\ OnlyLastCopyWorked
    /\ Len(OpsOf("copy")) = save_attempt + Cardinality(copied_to \cap {"target"})
    /\ (save_pc \in {"fallback", "done"} /\ "target" \notin copied_to
          /\ ~ValidationFailed /\ ~ProbeFailed /\ save_result.type # "raised") =>
          AllAttemptsFailed

\* three attempts, the default, all failed; the fallback worked
C23_Witness ==
    /\ Delivered
    /\ retry_attempts = DefaultRetryAttempts
    /\ Len(OpsOf("copy")) = DefaultRetryAttempts
    /\ AllAttemptsFailed
    /\ save_result = Returned(TRUE)
    /\ copied_to = {"local"}

BackupEnabled == Get(output_config, "backup_to_local", TRUE)

\* C24: after a copy to a network destination has worked, with the local
\* backup enabled, exactly one more copy, to the local default, is
\* attempted; whether or not it works, delivery returns True, the copy to
\* the target is not repeated and the fallback does not run.  No backup is
\* attempted when it is disabled, when the target is a local path or when no
\* copy to the target has worked.
C24_BackupBestEffort ==
    /\ Len(OpsOf("backup")) <= 1
    /\ OpsOf("backup") # <<>> =>
          /\ startswith_unc(target_path) /\ BackupEnabled
          /\ "target" \in copied_to
          /\ file_ops[Len(file_ops)].op = "backup"
          /\ file_ops[Len(file_ops) - 1] = FileOp("copy", "target", TRUE)
          /\ Delivered /\ save_result = Returned(TRUE)
    /\ "target" \in copied_to =>
          /\ OpsOf("fallback") = <<>>
          /\ OnlyLastCopyWorked
          /\ Delivered =>
                /\ save_result = Returned(TRUE)
                /\ Len(OpsOf("backup")) =
                      (IF startswith_unc(target_path) /\ BackupEnabled
                       THEN 1 ELSE 0)

\* the copy to the network path worked at the second attempt, the backup
\* failed, and delivery returned True all the same
C24_Witness ==
    /\ Delivered
    /\ startswith_unc(target_path)
    /\ OpsOf("copy") = <<FileOp("copy", "target", FALSE), FileOp("copy", "target", TRUE)>>
    /\ OpsOf("backup") = <<FileOp("backup", "local", FALSE)>>
    /\ save_result = Returned(TRUE)
    /\ copied_to = {"target"}

\* C25: when _save_with_unc_support has returned, on whichever path, the
\* temporary file it created no longer exists (an os.unlink that itself
\* raised set aside).
C25_TempFileGone ==
    unc_save_pc = "done" => temp_file # "exists"

\* helpers that read the latest call on the manager
CallIs(op) == "op" \in DOMAIN call /\ call.op = op

\* a glob-style pattern matches a path when the whole path is the pattern
\* with each star standing for any run of characters, letters compared
\* without regard to case
RECURSIVE GlobMatches(_, _)
GlobMatches(pattern, path) ==
    IF pattern = <<>> THEN path = <<>>
    ELSE IF Head(pattern) = "*"
    THEN \E k \in 0..Len(path) :
            GlobMatches(Tail(pattern), SubSeq(path, k + 1, Len(path)))
    ELSE /\ path # <<>>
         /\ Lower(Head(pattern)) = Lower(Head(path))
         /\ GlobMatches(Tail(pattern), Tail(path))

ConfiguredAllowList ==
    Get(Get(config, "security", EmptyDict), "allowed_unc_patterns", <<>>)

\* C26: validate_unc_path returns true only for a path that starts with two
\* backslashes and, when an allow-list is configured, matches one of its
\* glob-style patterns without regard to case; any other path fails
\* validation (false is returned).
C26_ValidIffPrefixedAndAllowed ==
    CallIs("validate_unc_path") =>
        LET allowed ==
                /\ startswith_unc(call.unc_path)
                /\ ConfiguredAllowList # <<>> =>
                      \E i \in DOMAIN ConfiguredAllowList :
                         GlobMatches(ConfiguredAllowList[i], call.unc_path)
        IN  /\ call.result = Returned(TRUE) => allowed
            /\ ~allowed => call.result = Returned(FALSE)

\* helpers that read the file-system calls of the latest probe
MadeCall(fn) == \E i \in DOMAIN call.os_calls : call.os_calls[i].fn = fn

Worked(fn) ==
    \E i \in DOMAIN call.os_calls :
       call.os_calls[i].fn = fn /\ call.os_calls[i].ok

AutoCreate ==
    Get(Get(config, "fallback_options", EmptyDict),
        "create_missing_directories", TRUE)

\* C27: check_unc_accessibility never raises; it returns true only if the
\* directory was there or was created, and the test file was both written
\* and removed; the directory is created only when it is missing and
\* creation is permitted; a missing directory without that permission, and
\* any file-system call that raised, give false.
C27_ProbeTrueOnlyIfWritable ==
    CallIs("check_unc_accessibility") =>
        /\ call.result.type = "returned"
        /\ call.result.value =>
              /\ Worked("os.path.exists") \/ Worked("os.makedirs")
              /\ Worked("open")
              /\ Worked("os.remove")
        /\ MadeCall("os.makedirs") => AutoCreate /\ ~Worked("os.path.exists")
        /\ ~Worked("os.path.exists") /\ ~AutoCreate => ~call.result.value
        /\ \A i \in DOMAIN call.os_calls :
              (call.os_calls[i].fn # "os.path.exists" /\ ~call.os_calls[i].ok)
                  => ~call.result.value

\* a probe that created the missing directory and found it writable
C27_Witness ==
    /\ CallIs("check_unc_accessibility")
    /\ call.result = Returned(TRUE)
    /\ Worked("os.makedirs")
    /\ Worked("os.remove")

\* helpers that read the latest resolution
Resolved == CallIs("get_output_path")

LocalDefault == Get(output_config, "default_local", DefaultLocal)

EndsWith(path, ending) ==
    /\ Len(path) >= Len(ending)
    /\ SubSeq(path, Len(path) - Len(ending) + 1, Len(path)) = ending

StartsWith(path, prefix) ==
    /\ Len(path) >= Len(prefix)
    /\ SubSeq(path, 1, Len(prefix)) = prefix

\* a path as abspath writes it: ntpath turns "/" into "\"
Native(os_name, path) ==
    IF os_name = "nt" THEN replace(path, "/", <<"\\">>) ELSE path

Sep(os_name) == IF os_name = "nt" THEN "\\" ELSE "/"

\* the configuration without its network settings
WithoutNetwork(cfg) ==
    IF "output_paths" \notin DOMAIN cfg THEN cfg
    ELSE [cfg EXCEPT !.output_paths =
            Restrict(@, DOMAIN @ \ {"unc_base_path", "unc_filename_template"})]

Backslashed(path) == replace(path, "/", <<"\\">>)

BasePath == Get(output_config, "unc_base_path", <<>>)

FilenameTemplate == Get(output_config, "unc_filename_template", DefaultTemplate)

\* the variables a template refers to
Referenced(template) == {FieldName(template[i]) : i \in DOMAIN template} \ {""}

\* the value a template variable stands for: the caller's, else the computed
Lookup(name) ==
    IF name \in DOMAIN call.template_vars THEN call.template_vars[name]
    ELSE Now[name]

Known(name) == name \in DOMAIN call.template_vars \cup DOMAIN Now

\* the template with its variables filled in, or the name made from the
\* timestamp when one of them is unknown
RenderedName ==
    IF \A name \in Referenced(FilenameTemplate) : Known(name)
    THEN [i \in DOMAIN FilenameTemplate |->
             IF FieldName(FilenameTemplate[i]) # ""
             THEN Lookup(FieldName(FilenameTemplate[i]))
             ELSE FilenameTemplate[i]]
    ELSE <<"combined_sheets_", Lookup("timestamp"), ".xlsx">>

AbsoluteLocalDefault ==
    Cwd(call.os_name) \o <<Sep(call.os_name)>>
    \o Native(call.os_name, LocalDefault)

\* C29 (as claimed): with network delivery enabled and a base path,
\* get_output_path returns the base path, a backslash and the rendered
\* file name; the result starts with the configured base path; the caller's
\* template variables win over the computed ones, and variables the template
\* does not refer to do not change the result; without a base path the
\* absolute local default is returned.
C29_JoinsBaseAndRenderedName ==
    (Resolved /\ is_unc_enabled(config)) =>
        IF BasePath = <<>> THEN call.result = AbsoluteLocalDefault
        ELSE /\ call.result = BasePath \o <<"\\">> \o RenderedName
             /\ StartsWith(call.result, BasePath)
             /\ call.result
                = get_output_path(call.os_name, config, call.filename_override,
                                  Restrict(call.template_vars,
                                           DOMAIN call.template_vars
                                           \cap Referenced(FilenameTemplate)))

\* the name joined to the base path: the override when one is given
JoinedName ==
    IF call.filename_override # <<>> THEN call.filename_override
    ELSE RenderedName

\* the variables the joined name is made from: those of the template and,
\* when one of them is unknown, the timestamp
UsedVars ==
    IF \A name \in Referenced(FilenameTemplate) : Known(name)
    THEN Referenced(FilenameTemplate)
    ELSE Referenced(FilenameTemplate) \cup {"timestamp"}

\* C29 (amended): with network delivery enabled and a base path,
\* get_output_path returns the base path and a file name joined by a
\* backslash, every forward slash of either written as a backslash; the
\* file name is the override when one is given, else the rendered template,
\* else (a variable of the template being unknown) the name made from the
\* timestamp; the result starts with the base path so written unless the
\* override is an absolute path; the caller's template variables win over
\* the computed ones, and variables that the name is not made from do not
\* change the result; without a base path the absolute local default is
\* returned, whatever the override.
C29_JoinsBaseAndName ==
    (Resolved /\ is_unc_enabled(config)) =>
        IF BasePath = <<>> THEN call.result = AbsoluteLocalDefault
        ELSE /\ "/" \notin Range(call.result)
             /\ EndsWith(call.result, Backslashed(JoinedName))
             /\ JoinedName[1] \notin Seps =>
                   /\ StartsWith(call.result, Backslashed(BasePath))
                   /\ Len(call.result) <= Len(BasePath) + 1 + Len(JoinedName)
                   /\ call.result[Len(call.result) - Len(JoinedName)] = "\\"
             /\ (/\ call.filename_override = <<>>
                 /\ "timestamp" \in UsedVars
                 /\ "timestamp" \in DOMAIN call.template_vars)
                   => /\ call.template_vars.timestamp \in Range(call.result)
                      /\ Now.timestamp \notin Range(call.result)
             /\ call.result
                = get_output_path(call.os_name, config, call.filename_override,
                                  Restrict(call.template_vars,
                                           DOMAIN call.template_vars
                                           \cap UsedVars))

\* a template that refers to the timestamp, rendered with the caller's
\* timestamp and a variable the template does not refer to
C29_Witness ==
    /\ Resolved
    /\ is_unc_enabled(config)
    /\ BasePath = <<"\\", "\\", "server", "\\", "share">>
    /\ call.filename_override = <<>>
    /\ FilenameTemplate = <<"combined_", "{timestamp}", ".xlsx">>
    /\ DOMAIN call.template_vars = {"timestamp", "project_name"}
    /\ call.result = BasePath \o <<"\\", "combined_", "run7", ".xlsx">>

\* C30: constructing the manager never fails: when the configuration file
\* is missing, cannot be read or cannot be parsed, construction completes
\* and the configuration is the internal defaults (network delivery
\* disabled, the local default path, fallback enabled, 3 retry attempts).
C30_LoadNeverFails ==
    call # None =>
        /\ config # None
        /\ config_file.state # "valid" =>
              /\ config = _get_default_config
              /\ ~is_unc_enabled(config)
              /\ LocalDefault = <<"output", "/", "combined_sheets.xlsx">>
              /\ fallback_config.use_local_on_unc_failure
              /\ retry_attempts = 3

\* a step in which a window clock is restarted
MinuteRestart == qm'.minute_elapsed < qm.minute_elapsed

HundredRestart == qm'.hundred_elapsed < qm.hundred_elapsed

DayRestart == qm'.last_reset # qm.last_reset

\* C31: no counter of the tracker is ever negative; a counter decreases only
\* in a step that restarts the clock of its own window; and a step that
\* restarts a window clock leaves the counters of that window at 0 (the
\* daily reset moves the reset date to the date of the call).
C31_CountersBetweenResets ==
    /\ [](/\ qm.drive_requests >= 0
          /\ qm.sheets_requests >= 0
          /\ qm.drive_queries >= 0
          /\ qm.daily_drive_quota >= 0)
    /\ [][/\ qm'.sheets_requests < qm.sheets_requests => MinuteRestart
          /\ MinuteRestart =>
                qm'.sheets_requests = 0 /\ qm'.minute_elapsed = 0
          /\ (\/ qm'.drive_requests < qm.drive_requests
              \/ qm'.drive_queries < qm.drive_queries) => HundredRestart
          /\ HundredRestart =>
                /\ qm'.drive_requests = 0
                /\ qm'.drive_queries = 0
                /\ qm'.hundred_elapsed = 0
          /\ qm'.daily_drive_quota < qm.daily_drive_quota => DayRestart
          /\ DayRestart =>
                qm'.daily_drive_quota = 0 /\ qm'.last_reset = today]_vars

\* the minute window was reset by a sheets call while the drive counters of
\* the running 100-second window were kept
C31_Witness ==
    /\ last.op = "log_sheets_request"
    /\ HasLine(qm, [line |-> "last_minute", sheets |-> 281])
    /\ qm.sheets_requests = 0
    /\ qm.minute_elapsed = 0
    /\ qm.hundred_elapsed = MinuteWindow
    /\ qm.drive_requests = 951

\* C32: a sheets record call, of whatever operation kind, never raises the
\* daily weighted total: the total is as it was before the call, or 0 when
\* the call arrived on a new date.
C32_SheetsCallsCarryNoWeight ==
    [][RecordsSheets =>
         /\ qm'.daily_drive_quota <= qm.daily_drive_quota
         /\ qm'.daily_drive_quota \in {0, qm.daily_drive_quota}]_vars

\* a sheets call of the heaviest kind recorded next to a drive total
C32_Witness ==
    /\ last = [op |-> "log_sheets_request", arg |-> "convert"]
    /\ qm.sheets_requests = 1
    /\ qm.daily_drive_quota = 951
    /\ qm.last_reset = today

\* the tracker apart from the lines printed by the latest call
Tracked(m) ==
    [k \in DOMAIN m \ {"printed"} |-> m[k]]

\* C33: get_status returns the current value of the four counters, the time
\* elapsed in each window and the ceilings of Config.QUOTA_LIMITS, and it
\* leaves every counter, both window clocks and the date of the last reset
\* as they were, also when a window has expired or the date has changed.
C33_StatusIsSnapshot ==
    [][(n_calls' = n_calls + 1 /\ last'.op = "get_status") =>
         /\ Tracked(qm') = Tracked(qm)
         /\ today' = today
         /\ last'.arg.drive_requests_per_100s = qm.drive_requests
         /\ last'.arg.sheets_requests_per_minute = qm.sheets_requests
         /\ last'.arg.drive_queries_per_100s = qm.drive_queries
         /\ last'.arg.daily_drive_quota_used = qm.daily_drive_quota
         /\ last'.arg.time_in_current_minute.ticks = qm.minute_elapsed
         /\ last'.arg.time_in_current_100s.ticks = qm.hundred_elapsed
         /\ last'.arg.limits = QUOTA_LIMITS
         /\ last'.arg.limits.sheets_per_minute = 300
         /\ last'.arg.limits.drive_per_100s = 1000]_vars

\* a status taken when the minute window has expired on a new date: no
\* rollover was performed
C33_Witness ==
    /\ last.op = "get_status"
    /\ last.arg.sheets_requests_per_minute = 281
    /\ qm.sheets_requests = 281
    /\ qm.minute_elapsed >= MinuteWindow
    /\ today > qm.last_reset

\* C34: after n invocations that each returned from their first attempt,
\* the wrapped operation has run exactly n times, enforce_rate_limit has
\* been called exactly n times, each time with the category of the call and
\* before the operation of that attempt, and the record operation of the
\* category has been called exactly n times with the operation kind.
NoInvocationRunning == pc \in {"idle", "waited", "done"}

Counts(name) ==
    /\ call_count'.first_try
    /\ call_count'[name] # call_count[name]

C34_EachCallCounted ==
    /\ Counts("enforce_rate_limit") =>
            /\ call_count'.enforce_rate_limit = call_count.enforce_rate_limit + 1
            /\ call_count'.enforce_arg = api_type(func)
            /\ call_count.func = n_calls - 1
            /\ StepsOf(attempt) = <<Step(attempt, "spacing"),
                                    Step(attempt, "pause")>>
    /\ Counts("func") =>
            /\ call_count'.func = call_count.func + 1
            /\ call_count.enforce_rate_limit = n_calls
    /\ Counts("log_request") =>
            /\ call_count'.log_request = call_count.log_request + 1
            /\ call_count.func = n_calls
            /\ last' = [op |-> IF api_type(func) = "drive"
                               THEN "log_drive_request"
                               ELSE "log_sheets_request",
                        arg |-> operation_type(func)]

C34_OncePerFirstTryCall ==
    /\ []((call_count.first_try /\ NoInvocationRunning) =>
            /\ call_count.func = n_calls
            /\ call_count.enforce_rate_limit = n_calls
            /\ call_count.log_request = n_calls)
    /\ [][C34_EachCallCounted]_vars

C34_Witness ==
    /\ pc = "done"
    /\ n_calls = 2
    /\ call_count = [func |-> 2, enforce_rate_limit |-> 2, log_request |-> 2,
                     enforce_arg |-> "drive", first_try |-> TRUE]
    /\ last = [op |-> "log_drive_request", arg |-> "query"]

\* C35: a quota pause lasts at least what is left of the window that caused
\* it, so after the pause that window has expired; an expired window stays
\* expired through every step that is not a record call (a failing attempt
\* and its backoff included), and a pause-check never waits for an expired
\* window: the executor does not pause twice for one window.
PausedFor(m) ==
    IF m.sheets_requests > SheetsSoftLimit /\ m.minute_elapsed < MinuteWindow
    THEN "minute"
    ELSE IF m.drive_requests > DriveSoftLimit
            /\ m.hundred_elapsed < HundredSecondWindow
         THEN "hundred"
         ELSE "none"

Expired(m, w) ==
    IF w = "minute" THEN m.minute_elapsed >= MinuteWindow
    ELSE m.hundred_elapsed >= HundredSecondWindow

C35_PauseOutlastsWindow ==
    \A w \in {"minute", "hundred"} :
        /\ (pc = "pause" /\ PausedFor(qm) = w) =>
                /\ should_pause_for_quota(qm) > 0
                /\ Expired(qm', w)
                /\ PausedFor(qm') # w
        /\ (Expired(qm, w) /\ pc # "record") => Expired(qm', w)

C35_NoSecondPauseForWindow ==
    /\ [](\A w \in {"minute", "hundred"} :
            Expired(qm, w) => PausedFor(qm) # w)
    /\ [][C35_PauseOutlastsWindow]_vars

C35_Witness ==
    /\ pc = "enforce"
    /\ attempt = 1
    /\ RateLimited(last_exception)
    /\ qm.sheets_requests = 281
    /\ Expired(qm, "minute")
    /\ should_pause_for_quota(qm) = 0
    /\ qm.hundred_elapsed = 623

\* C36: right after any record call (log_drive_request, log_sheets_request
\* or log_drive_query) less than 60 s have elapsed in the minute window and
\* less than 100 s in the 100-second window: the call restarts every window
\* that had expired, whatever category it records.
C36_EveryExpiredWindowRestarted ==
    [][RecordsAny =>
        /\ qm'.minute_elapsed < MinuteWindow
        /\ qm'.hundred_elapsed < HundredSecondWindow
        /\ Expired(qm, "minute") =>
                (qm'.minute_elapsed = 0 /\ qm'.sheets_requests = 0)
        /\ Expired(qm, "hundred") =>
                (qm'.hundred_elapsed = 0 /\ qm'.drive_requests = 0)
        /\ ~Expired(qm, "minute") => qm'.minute_elapsed = qm.minute_elapsed
        /\ ~Expired(qm, "hundred") => qm'.hundred_elapsed = qm.hundred_elapsed]_vars

C36_Witness ==
    /\ last.op = "log_drive_request"
    /\ HasLine(qm, [line |-> "last_minute", sheets |-> 281])
    /\ qm.sheets_requests = 0
    /\ qm.minute_elapsed = 0
    /\ qm.hundred_elapsed = MinuteWindow
    /\ qm.drive_requests = 1

\* C37: save_file_safely returns True exactly when a copy to the requested
\* target or the fallback copy to the local default has worked: after True
\* the artifact is at the target or at the local default, after False (and
\* after an exception) no copy has worked and nothing has been written.
CopiesThatWorked ==
    SelectSeq(file_ops, LAMBDA o : o.op \in {"copy", "fallback"} /\ o.ok)

C37_TrueIffSomeCopyWorked ==
    Delivered =>
        /\ save_result = Returned(TRUE) <=> CopiesThatWorked # <<>>
        /\ save_result = Returned(TRUE) =>
                /\ Len(CopiesThatWorked) = 1
                /\ CopiesThatWorked[1].to \in copied_to
                /\ CopiesThatWorked[1].to =
                      (IF CopiesThatWorked[1].op = "copy" THEN "target" ELSE "local")
        /\ save_result # Returned(TRUE) =>
                /\ copied_to = {}
                /\ OpsOf("backup") = <<>>
                /\ (save_result = Returned(FALSE) \/ save_result.type = "raised")

\* True is returned although nothing is at the requested target: every copy
\* to it failed and the fallback wrote the local default
C37_Witness ==
    /\ Delivered
    /\ save_result = Returned(TRUE)
    /\ copied_to = {"local"}
    /\ startswith_unc(target_path)
    /\ Len(OpsOf("copy")) = 2
    /\ file_ops[Len(file_ops)] = FileOp("fallback", "local", TRUE)

\* C38: the last-call timestamp of a wrapped function is written only when
\* an attempt of that function returns normally, and then it is the time
\* the attempt completed; an attempt that raises, retryable or fatal,
\* leaves every timestamp as it was, and when the spacing check has run at
\* least min_interval has passed since that completion.  In the witness a
\* call has returned and the next call of the same function, made at once,
\* has waited min_interval and raised.
TimestampWritten(f) == since_called'[f] < since_called[f]

C38_StampedOnNormalReturn ==
    /\ \A f \in Wrapped :
          TimestampWritten(f) =>
              /\ f = func
              /\ pc = "record"
              /\ pending.type = "result"
              /\ outcome'.type = "returned"
    /\ pc = "record" =>
          /\ since_called'[func] = 0
          /\ \A f \in Wrapped \ {func} : since_called'[f] = since_called[f]
    /\ pc = "except" =>
          \A f \in Wrapped :
              since_called'[f] =
                  Min(since_called[f] + (qm'.hundred_elapsed - qm.hundred_elapsed),
                      MaxSinceCalled)
                  \/ qm'.hundred_elapsed = MaxHundredElapsed
    /\ pc = "spacing" => since_called'[func] >= min_interval(func)

C38_TimestampFrame == [][C38_StampedOnNormalReturn]_vars

C38_Witness ==
    /\ pc = "done"
    /\ n_calls = 2
    /\ func = "func"
    /\ outcome.type = "raised"
    /\ Fatal(pending)
    /\ attempt = 0
    /\ since_called["func"] > 0
    /\ qm.sheets_requests = 1
    /\ qm.hundred_elapsed = 2 * OpTime + min_interval("func")

\* C39: get_sheet_metadata and extract_worksheet_data catch the HttpError
\* of their request themselves, so a RateLimited or TransientServer response
\* never reaches the executor: the operation is called once, nothing is
\* retried, no backoff sleep is made, and the call is recorded as one
\* successful call that returns the empty result of the operation.
CatchingExtractors == {"get_sheet_metadata", "extract_worksheet_data"}

Absorbed(p) ==
    /\ p.type = "result"
    /\ p.value = "empty"
    /\ (RateLimited(p.caught) \/ TransientServer(p.caught))

C39_RemoteErrorAbsorbed ==
    (func \in CatchingExtractors /\ n_calls > 0) =>
        /\ pending.type # "HttpError"
        /\ last_exception = None
        /\ attempt = 0
        /\ sleeps = <<>>
        /\ Count("call") <= 1
        /\ (Absorbed(pending) /\ pc \in {"done", "waited"}) =>
                /\ outcome = [type |-> "returned", value |-> pending]
                /\ Count("call") = 1
                /\ Count("record") = 1
                /\ last = [op |-> "log_sheets_request", arg |-> "read"]
        /\ Absorbed(pending) => pc \in {"record", "done", "waited"}

C39_Witness ==
    /\ pc = "done"
    /\ func = "get_sheet_metadata"
    /\ Absorbed(pending)
    /\ RateLimited(pending.caught)
    /\ outcome.type = "returned"
    /\ Count("call") = 1
    /\ n_calls = 1
    /\ qm.sheets_requests = 1

\* C40: whatever names one ExcelCombiner is asked to sanitize, every name it
\* returns has at most 31 characters and differs from every name it
\* returned before (a duplicate gets a numeric suffix, and the base is cut
\* so that the suffix fits), and every call returns.
C40_ShortAndUnique ==
    /\ [](\A i \in DOMAIN sheet_names :
            /\ Len(sheet_names[i]) <= SheetNameLimit
            /\ \A j \in 1..(i - 1) : sheet_names[j] # sheet_names[i])
    /\ [](used_sheet_names = Range(sheet_names))
    /\ (sanitizing # None ~> sanitizing = None)

\* the eleventh use of one 31-character name: its base is cut to 28
\* characters for the three characters of "_10"
C40_Witness ==
    /\ Len(sheet_names) = 11
    /\ sheet_names[11] = Rep("a", 28) \o <<"_", "1", "0">>
    /\ Len(sheet_names[11]) = SheetNameLimit
    /\ sheet_names[1] = Rep("a", SheetNameLimit)
    /\ sanitizing = None

TypeOK ==
    /\ pc \in {"idle", "waited", "spacing", "pause", "enforce", "call",
               "record", "except", "done"}
    /\ attempt \in 0..(max_retries + 1)
    /\ today \in 0..MaxDays

====
